---- MODULE Spec2Model ----
(***************************************************************************)
(* Model of the AEO audit tool.                                            *)
(*                                                                         *)
(*   Spec        the live run_audit of aeo_logic.py: the home page is      *)
(*               fetched, links to the key pages are looked up in it, the  *)
(*               linked pages are fetched, the signals are computed and    *)
(*               the findings map is built.                                *)
(*   SpecReport  generate_pdf_report over a bounded set of category maps   *)
(*               and ROI inputs: the readiness score and the ROI table.    *)
(*   SpecTwice   run_audit called twice for one site that answers the      *)
(*               second call as it answered the first, for the live        *)
(*               engine and for the dual-mode engine.                      *)
(*   SpecSignals the signals and findings of run_audit over bounded page   *)
(*               contents, from the point where the pages are fetched.     *)
(*   SpecCrawl   the requests of one run_audit for sites picked link by    *)
(*               link: every key page linked, shared and ambiguous links,  *)
(*               schemeless and empty addresses, failing home pages.       *)
(*   SpecLegacy  the button handler of the legacy five-check app: one      *)
(*               page is fetched, scored and turned into recommendations   *)
(*               and a PDF.                                                *)
(*                                                                         *)
(* Verdicts: the source encodes them as coloured circles; GOOD is the      *)
(* green one, NEEDS_WORK the yellow one, POOR the red one.                 *)
(* A dict is a sequence of <<key, value>> pairs in insertion order.        *)
(* A page text is described by the values the source's regular             *)
(* expressions and counts take on it.                                      *)
(***************************************************************************)
EXTENDS Integers, Sequences, FiniteSets, TLC

VARIABLES
    url,            \* run_audit: the url argument, normalised by the first step
    local_mode,     \* run_audit: the local_mode argument
    pc,             \* run_audit: position in the function body
    soup_home,      \* parsed home page
    hrefs,          \* about_href .. compare_href, by page name
    soups,          \* soup_about .. soup_compare, by page name
    log,            \* every requests.get issued, in order, with its outcome
    findings,       \* the dict run_audit returns
    exc,            \* exception escaping run_audit, "" when none
    tape,           \* what requests.get did on each call of the first run,
                    \* in order: the site answers a second run the same way
    engine,         \* which run_audit runs: "live" is aeo_logic.py's, "v3"
                    \* the dual-mode engine's
    first,          \* how the previous call of run_audit ended, NoRun
                    \* when there was none
    gen,            \* which generate_pdf_report runs: "pro" is aeo_logic.py's,
                    \* "premium" the v4 one
    audit_data,     \* generate_pdf_report: the audit_data argument
    include_sales_pages,  \* generate_pdf_report argument
    avg_sale_value,     \* generate_pdf_report argument
    baseline_conv_pct,  \* generate_pdf_report argument
    monthly_visitors,   \* generate_pdf_report argument
    rpc,            \* generate_pdf_report: position in the function body
    score_pct,      \* generate_pdf_report: score_pct (aeo_logic.py)
    score,          \* generate_pdf_report: score = _overall_score(...) (v4)
    sales,          \* generate_pdf_report: current_rev, potential_rev, lost_m
    roi_rows,       \* generate_pdf_report: roi_rows without the header row
    rexc,           \* exception escaping generate_pdf_report, "" when none
    strengths,      \* the strengths list before it is cut to six items
    weaknesses,     \* the weaknesses list before it is cut to six items
    qw_unique,      \* the quick wins without repeats, before the cut
    shown,          \* the three lists as the report shows them
    app_url,        \* legacy app: the address typed into the form
    app_pc,         \* legacy app: position in run_app's button handler
    app_soup,       \* legacy app: the page fetch_page_data parsed
    result,         \* legacy app: result = fetch_page_data(url)
    app_score,      \* legacy app: score = calculate_score(result)
    recommendations,  \* legacy app: generate_recommendations(result)
    calls,          \* legacy app: what the handler has called, in order
    app_exc         \* legacy app: exception escaping the handler, "" when none

runVars == <<url, local_mode, pc, soup_home, hrefs, soups, log, findings, exc,
             tape, engine, first>>
bulletVars == <<strengths, weaknesses, qw_unique, shown>>
repVars == <<gen, audit_data, include_sales_pages, avg_sale_value,
             baseline_conv_pct, monthly_visitors, rpc, score_pct, score,
             sales, roi_rows, rexc, strengths, weaknesses, qw_unique, shown>>
appVars == <<app_url, app_pc, app_soup, result, app_score, recommendations,
             calls, app_exc>>
vars == <<url, local_mode, pc, soup_home, hrefs, soups, log, findings, exc,
          tape, engine, first, gen, audit_data, include_sales_pages, avg_sale_value,
          baseline_conv_pct, monthly_visitors, rpc, score_pct, score,
          sales, roi_rows, rexc, strengths, weaknesses, qw_unique, shown,
          app_url, app_pc, app_soup, result, app_score, recommendations,
          calls, app_exc>>

GOOD == "GOOD"
NEEDS_WORK == "NEEDS_WORK"
POOR == "POOR"
Icons == {GOOD, NEEDS_WORK, POOR}

None == "None"

\* the value of first while no call of run_audit has ended
NoRun == [pc |-> "none", local_mode |-> TRUE, findings |-> <<>>, exc |-> ""]

----------------------------------------------------------------------------
(* dicts *)

RECURSIVE DictIndex(_, _)
DictIndex(d, k) ==
    IF d = <<>> THEN 0
    ELSE IF d[Len(d)][1] = k THEN Len(d)
    ELSE DictIndex(SubSeq(d, 1, Len(d) - 1), k)

Keys(d) == [i \in 1..Len(d) |-> d[i][1]]

Values(d) == [i \in 1..Len(d) |-> d[i][2]]

\* d[k] = v
DictSet(d, k, v) ==
    IF DictIndex(d, k) = 0 THEN Append(d, <<k, v>>)
    ELSE [d EXCEPT ![DictIndex(d, k)] = <<k, v>>]

\* d.get(k, default)
DictGet(d, k, default) ==
    IF DictIndex(d, k) = 0 THEN default ELSE d[DictIndex(d, k)][2]

----------------------------------------------------------------------------
(* pages *)

\* BeautifulSoup("", "html.parser"), and the html text ""
EmptySoup ==
    [anchors |-> <<>>, sent |-> 0, words |-> 0, syll |-> 0,
     first_person |-> 0, third_person |-> 0, price_words |-> FALSE,
     faq_words |-> 0, testi_words |-> 0, details |-> 0,
     has_table |-> FALSE, max_cols |-> 0,
     txt_compare |-> FALSE, txt_comparison |-> FALSE, txt_vs |-> FALSE,
     txt_pros |-> FALSE, txt_cons |-> FALSE,
     has_text |-> FALSE, viewport |-> FALSE, sic_links |-> FALSE]

\* Sample page bodies.  sent/words/syll/first_person/third_person/
\* price_words are taken on the first 5000 characters of the page text, the
\* other text fields on the whole text.  first_person counts the words we,
\* our, i, my, us, third_person the markers they, their, the company, the
\* team; faq_words counts the matches of q:, question, faq and testi_words
\* those of testimonial, review(s), 5 star; details counts the
\* <details> and <summary> elements; max_cols is the largest number of
\* cells in a table row; txt_* tell whether the word occurs in the lowered
\* text ("comparison" does not contain "compare").
PlainBody ==
    [EmptySoup EXCEPT !.sent = 2, !.words = 10, !.syll = 14,
                      !.has_text = TRUE, !.viewport = TRUE]

PromoBody ==
    [EmptySoup EXCEPT !.sent = 2, !.words = 30, !.syll = 51,
                      !.first_person = 2, !.price_words = TRUE,
                      !.faq_words = 2, !.testi_words = 3,
                      !.has_text = TRUE]

DenseBody ==
    [EmptySoup EXCEPT !.sent = 1, !.words = 25, !.syll = 50,
                      !.faq_words = 3, !.testi_words = 2, !.details = 3,
                      !.has_table = TRUE, !.max_cols = 4,
                      !.txt_compare = TRUE, !.txt_vs = TRUE,
                      !.has_text = TRUE, !.viewport = TRUE,
                      !.sic_links = TRUE]

\* a page of markup without visible text
BlankBody == [EmptySoup EXCEPT !.viewport = TRUE]

HomeBodies == {PlainBody, PromoBody, DenseBody}
SubBodies == {DenseBody, BlankBody}

\* The key pages, in the order run_audit requests them.
PageNames == <<"about", "services", "faq", "pricing", "testi", "compare">>

\* The labels run_audit passes to _find_link_like for each key page.
Labels(page) ==
    CASE page = "about"    -> {"about"}
      [] page = "services" -> {"services", "service"}
      [] page = "faq"      -> {"faq", "frequently"}
      [] page = "pricing"  -> {"pricing", "prices", "rates"}
      [] page = "testi"    -> {"testimonials", "reviews"}
      [] page = "compare"  -> {"compare", "comparison"}

\* Sample anchor texts (stripped, lower-cased) ...
AnchorTexts ==
    {"about us", "our services", "faq", "pricing", "reviews", "compare"}

\* ... and the labels each of them contains as a substring (lbl in txt).
SubstringsOf(txt) ==
    CASE txt = "about us"     -> {"about"}
      [] txt = "our services" -> {"services", "service"}
      [] txt = "faq"          -> {"faq"}
      [] txt = "pricing"      -> {"pricing"}
      [] txt = "reviews"      -> {"reviews"}
      [] txt = "compare"      -> {"compare"}
      [] txt = "services & pricing" -> {"services", "service", "pricing"}

\* href values: a site-relative path, and one urlsplit rejects
BadHref == "http://["
Hrefs == {"/p", BadHref}

MaxAnchors == 2

Anchors == [txt : AnchorTexts, href : Hrefs]

AnchorLists == UNION {[1..n -> Anchors] : n \in 0..MaxAnchors}

HomePages == {[b EXCEPT !.anchors = al] : b \in HomeBodies, al \in AnchorLists}

----------------------------------------------------------------------------
(* urls: a url is the sequence of its parts, "" is <<>> *)

Schemes == {"http://", "https://"}

HasScheme(u) == u # <<>> /\ u[1] \in Schemes

\* _norm_url that prepends https:// to whatever it is given
NormUrlAlwaysPrepend(u) == <<"https://">> \o u

_norm_url(u) ==
    IF u = <<>> THEN <<>>
    ELSE IF ~HasScheme(u) THEN <<"https://">> \o u
    ELSE u

BaseUrls == {<<>>, <<"example.com">>, <<"https://", "example.com">>}

\* urljoin(base, rel) for the hrefs above; urlsplit raises ValueError
\* ("Invalid IPv6 URL") on BadHref
UrljoinRaises(base, rel) == rel = BadHref

urljoin(base, rel) ==
    IF HasScheme(base) THEN <<base[1], base[2], rel>> ELSE <<rel>>

----------------------------------------------------------------------------
(* http *)

UserAgent == "Mozilla/5.0 (AEO-Audit-Tool; +https://example.com)"

\* What requests.get can do for a url: raise, or answer with a status, a
\* Content-Type (html: "text/html" occurs in it) and a body.
Raise(e) == [kind |-> "raise", status |-> 0, html |-> FALSE,
             text |-> EmptySoup, error |-> e]

Response(st, h, body) == [kind |-> "response", status |-> st, html |-> h,
                          text |-> body, error |-> ""]

Responses(u, bodies) ==
    IF ~HasScheme(u) THEN {Raise("MissingSchema")}
    ELSE {Raise("Timeout"), Raise("ConnectionError")}
         \cup {Response(403, TRUE, BlankBody), Response(404, TRUE, DenseBody),
               Response(200, FALSE, DenseBody)}
         \cup {Response(200, TRUE, b) : b \in bodies}

\* _safe_get without the try/except
SafeGetUnguarded(r) ==
    IF r.kind = "raise" THEN [text |-> EmptySoup, exc |-> r.error]
    ELSE IF r.status = 200 /\ r.html THEN [text |-> r.text, exc |-> ""]
    ELSE [text |-> EmptySoup, exc |-> ""]

\* _safe_get without the status and Content-Type test
SafeGetAnyResponse(r) ==
    IF r.kind = "raise" THEN [text |-> EmptySoup, exc |-> ""]
    ELSE [text |-> r.text, exc |-> ""]

\* _safe_get: what the call does for what requests.get did: the text it
\* returns, and the exception that leaves it ("" when none does)
_safe_get(r) ==
    IF r.kind = "raise" THEN [text |-> EmptySoup, exc |-> ""]
    ELSE IF r.status = 200 /\ r.html THEN [text |-> r.text, exc |-> ""]
    ELSE [text |-> EmptySoup, exc |-> ""]

\* _find_link_like that falls back on a guessed address
FindLinkLikeGuess(anchors, labels) ==
    LET hits == {i \in 1..Len(anchors) :
                    SubstringsOf(anchors[i].txt) \cap labels # {}}
    IN  IF hits = {} THEN "/p"
        ELSE anchors[CHOOSE i \in hits : \A j \in hits : i <= j].href

\* _find_link_like: href of the first anchor whose text contains a label
RECURSIVE _find_link_like(_, _)
_find_link_like(anchors, labels) ==
    IF anchors = <<>> THEN None
    ELSE IF SubstringsOf(Head(anchors).txt) \cap labels # {}
         THEN Head(anchors).href
         ELSE _find_link_like(Tail(anchors), labels)

----------------------------------------------------------------------------
(* signals *)

Max(a, b) == IF a >= b THEN a ELSE b

\* round(n / d) for d > 0, ties to the even neighbour as Python 3 rounds
Round(n, d) ==
    LET q == n \div d
        r == n - q * d
    IN  IF 2 * r < d THEN q
        ELSE IF 2 * r > d THEN q + 1
        ELSE IF q % 2 = 0 THEN q ELSE q + 1

\* _grade_level, in tenths of a grade: round(0.39 * (words / sentences)
\* + 11.8 * (syll / words) - 15.59, 1) over the common denominator
_grade_level(text) ==
    LET sentences == Max(1, text.sent)
        words == Max(1, text.words)
        syll == Max(1, text.syll)
    IN  Round(39 * words * words + 1180 * syll * sentences
                - 1559 * sentences * words,
              10 * sentences * words)

\* _has_table_compare that takes three cells a row for a comparison, as
\* its first comment says
HasTableCompareThree(soup) ==
    \/ soup.max_cols >= 3
    \/ soup.txt_compare /\ (soup.txt_vs \/ soup.txt_pros \/ soup.txt_cons)

_has_table_compare(soup) ==
    \/ soup.max_cols >= 4
    \/ soup.txt_compare /\ (soup.txt_vs \/ soup.txt_pros \/ soup.txt_cons)

\* Signals with the testimonial hits kept in a counter that outlives the
\* call: a second call over the same pages starts from the first one's hits
SignalsCarried(home, sub) ==
    LET faq_first == sub["faq"].details + sub["faq"].faq_words
        hits == sub["testi"].testi_words + home.testi_words
    IN  [gl |-> _grade_level(home),
         tone_first_person |-> home.first_person > 0,
         faq_qs |-> IF faq_first = 0 THEN home.faq_words ELSE faq_first,
         testi_hits |-> IF first = NoRun THEN hits ELSE 2 * hits,
         has_compare |-> _has_table_compare(
                            IF sub["compare"].has_text THEN sub["compare"]
                            ELSE home),
         sic |-> sub["services"].sic_links,
         has_pricing |-> sub["pricing"].has_text \/ home.price_words,
         mobile_pass |-> home.viewport]

\* The signals run_audit computes from the parsed pages.
Signals(home, sub) ==
    LET faq_first == sub["faq"].details + sub["faq"].faq_words
    IN  [gl |-> _grade_level(home),
         tone_first_person |-> home.first_person > 0,
         faq_qs |-> IF faq_first = 0 THEN home.faq_words ELSE faq_first,
         testi_hits |-> sub["testi"].testi_words + home.testi_words,
         has_compare |-> _has_table_compare(
                            IF sub["compare"].has_text THEN sub["compare"]
                            ELSE home),
         sic |-> sub["services"].sic_links,
         has_pricing |-> sub["pricing"].has_text \/ home.price_words,
         mobile_pass |-> home.viewport]

----------------------------------------------------------------------------
(* findings: area -> (icon, result, recommendation, why, how, quick_win) *)

\* ReadabilityFinding with the upper band ending at grade 10
ReadabilityFindingTen(gl) ==
    IF gl <= 80 THEN
        <<GOOD, <<"Readable (Grade ~", gl, ")">>, "Keep copy concise.",
          "Easier reading increases chance of being quoted in AI answers.",
          "Maintain short sentences, bullets for benefits, and scannable sections.",
          "">>
    ELSE IF gl <= 100 THEN
        <<NEEDS_WORK, <<"Moderate (Grade ~", gl, ")">>,
          "Tighten copy; shorten sentences.",
          "AI models prefer succinct, plain-language answers.",
          "Rewrite hero + first section to be punchier; convert big paragraphs to bullets.",
          "Rewrite hero and top section">>
    ELSE
        <<POOR, <<"Complex (Grade ~", gl, ")">>, "Simplify to about 7th grade.",
          "Complex text is less likely to be quoted in AI results.",
          "Shorten sentences; replace jargon; add bullets to distill benefits.",
          "Rewrite hero and top 2 sections">>

ReadabilityFinding(gl) ==
    IF gl <= 80 THEN
        <<GOOD, <<"Readable (Grade ~", gl, ")">>, "Keep copy concise.",
          "Easier reading increases chance of being quoted in AI answers.",
          "Maintain short sentences, bullets for benefits, and scannable sections.",
          "">>
    ELSE IF gl <= 110 THEN
        <<NEEDS_WORK, <<"Moderate (Grade ~", gl, ")">>,
          "Tighten copy; shorten sentences.",
          "AI models prefer succinct, plain-language answers.",
          "Rewrite hero + first section to be punchier; convert big paragraphs to bullets.",
          "Rewrite hero and top section">>
    ELSE
        <<POOR, <<"Complex (Grade ~", gl, ")">>, "Simplify to about 7th grade.",
          "Complex text is less likely to be quoted in AI results.",
          "Shorten sentences; replace jargon; add bullets to distill benefits.",
          "Rewrite hero and top 2 sections">>

ToneFinding(tone_first_person) ==
    IF tone_first_person THEN
        <<NEEDS_WORK, <<"First-person heavy">>, "Rewrite to third-person expert.",
          "An objective, expert voice is more quotable for AI recommendations.",
          "Rewrite About/Services to third-person; reduce 'we/our' and show proof.",
          "Rewrite About and Services first">>
    ELSE
        <<GOOD, <<"Objective tone detected">>, "Maintain neutral, expert tone.",
          "Objective tone helps AI include your content.",
          "Keep first-person limited; lean on testimonials and case studies.",
          "">>

\* ServiceInCityFinding that looks for local pages in local mode only
ServiceInCityFindingLocalOnly(sic) ==
    IF sic /\ local_mode THEN
        <<GOOD, <<"Dedicated local pages present">>, "Expand coverage.",
          "Service+City pages target high-intent local queries AI uses.",
          "Add more suburbs; 2 short paras + local testimonial + LocalBusiness schema.",
          "">>
    ELSE
        <<POOR, <<"Missing dedicated pages">>,
          "Create location pages (e.g., 'Mechanic in Upwey').",
          "Precise service+location pages feed AI with local answers.",
          "Draft at least 3 suburb pages; add LocalBusiness + FAQ schema.",
          "Draft 3 suburb pages and link in footer">>

ServiceInCityFinding(sic) ==
    IF sic THEN
        <<GOOD, <<"Dedicated local pages present">>, "Expand coverage.",
          "Service+City pages target high-intent local queries AI uses.",
          "Add more suburbs; 2 short paras + local testimonial + LocalBusiness schema.",
          "">>
    ELSE
        <<POOR, <<"Missing dedicated pages">>,
          "Create location pages (e.g., 'Mechanic in Upwey').",
          "Precise service+location pages feed AI with local answers.",
          "Draft at least 3 suburb pages; add LocalBusiness + FAQ schema.",
          "Draft 3 suburb pages and link in footer">>

\* FaqFinding that is content with two Q&As
FaqFindingTwo(faq_qs) ==
    IF faq_qs >= 2 THEN
        <<GOOD, <<faq_qs, " Q&As found">>, "Keep FAQs fresh.",
          "FAQs directly fuel AI answers; structured Q/A is gold.",
          "Add new Q/A monthly; implement FAQPage schema.",
          "">>
    ELSE IF faq_qs >= 1 THEN
        <<NEEDS_WORK, <<faq_qs, " Q&As found">>, "Add 5{2013}10 buyer FAQs.",
          "Depth matters; concise Q/A improves odds of being quoted.",
          "Create 5{2013}10 buyer-intent questions with plain-language answers.",
          "Publish 5 FAQs this week">>
    ELSE
        <<POOR, <<"No proper FAQs">>, "Add 5{2013}10 buyer FAQs.",
          "AI relies on concise Q/A for direct answers.",
          "Write short Q/A; add FAQPage schema; link from nav/footer.",
          "Publish 5 FAQs this week">>

FaqFinding(faq_qs) ==
    IF faq_qs >= 5 THEN
        <<GOOD, <<faq_qs, " Q&As found">>, "Keep FAQs fresh.",
          "FAQs directly fuel AI answers; structured Q/A is gold.",
          "Add new Q/A monthly; implement FAQPage schema.",
          "">>
    ELSE IF faq_qs >= 1 THEN
        <<NEEDS_WORK, <<faq_qs, " Q&As found">>, "Add 5{2013}10 buyer FAQs.",
          "Depth matters; concise Q/A improves odds of being quoted.",
          "Create 5{2013}10 buyer-intent questions with plain-language answers.",
          "Publish 5 FAQs this week">>
    ELSE
        <<POOR, <<"No proper FAQs">>, "Add 5{2013}10 buyer FAQs.",
          "AI relies on concise Q/A for direct answers.",
          "Write short Q/A; add FAQPage schema; link from nav/footer.",
          "Publish 5 FAQs this week">>

\* TestimonialsFinding with the bands at 8 and 3
TestimonialsFindingEight(testi_hits) ==
    IF testi_hits >= 8 THEN
        <<GOOD, <<"Strong">>, "Keep fresh and detailed.",
          "Social proof boosts inclusion and conversions.",
          "Add a case study quarterly; rotate new quotes.",
          "">>
    ELSE IF testi_hits >= 3 THEN
        <<NEEDS_WORK, <<"Some quotes">>, "Add more plus 1{2013}2 case studies.",
          "Proof of outcomes increases trust signals.",
          "Gather 6{2013}10 quotes; write one before/after story.",
          "Request quotes from last 10 clients">>
    ELSE
        <<POOR, <<"Not found">>, "Collect quotes and write 1 case study.",
          "Without proof, AI is less likely to recommend you.",
          "Ask recent customers; publish a case study with metrics.",
          "Request quotes from last 10 clients">>

TestimonialsFinding(testi_hits) ==
    IF testi_hits >= 5 THEN
        <<GOOD, <<"Strong">>, "Keep fresh and detailed.",
          "Social proof boosts inclusion and conversions.",
          "Add a case study quarterly; rotate new quotes.",
          "">>
    ELSE IF testi_hits >= 1 THEN
        <<NEEDS_WORK, <<"Some quotes">>, "Add more plus 1{2013}2 case studies.",
          "Proof of outcomes increases trust signals.",
          "Gather 6{2013}10 quotes; write one before/after story.",
          "Request quotes from last 10 clients">>
    ELSE
        <<POOR, <<"Not found">>, "Collect quotes and write 1 case study.",
          "Without proof, AI is less likely to recommend you.",
          "Ask recent customers; publish a case study with metrics.",
          "Request quotes from last 10 clients">>

CompareFinding(has_compare) ==
    IF has_compare THEN
        <<GOOD, <<"Present">>, "Keep updated and honest.",
          "Comparison pages help AI answer 'best/which' queries.",
          "Include pricing, features, and proof; update quarterly.",
          "">>
    ELSE
        <<POOR, <<"Not found">>, "Add You vs 3 competitors table.",
          "Structured compare content feeds AI ranking logic.",
          "Create /compare with 4 columns and 5{2013}7 rows; honest but favourable.",
          "Publish /compare with 5 key rows">>

\* PricingFinding that is content with any pricing signal
PricingFindingGood(has_pricing) ==
    IF has_pricing THEN
        <<GOOD, <<"Some pricing signals">>, "Clarify ranges or 'from' pricing.",
          "Price cues help AI route high-intent users; reduces friction.",
          "Add ranges or 'from' prices; link to pricing explainer.",
          "Add a 3-tier pricing block">>
    ELSE
        <<POOR, <<"Contact us only">>, "Add 'from' pricing or typical ranges.",
          "Absent pricing lowers inclusion and conversion.",
          "Publish ranges; explain inclusions/exclusions.",
          "Add a 3-tier pricing block">>

PricingFinding(has_pricing) ==
    IF has_pricing THEN
        <<NEEDS_WORK, <<"Some pricing signals">>, "Clarify ranges or 'from' pricing.",
          "Price cues help AI route high-intent users; reduces friction.",
          "Add ranges or 'from' prices; link to pricing explainer.",
          "Add a 3-tier pricing block">>
    ELSE
        <<POOR, <<"Contact us only">>, "Add 'from' pricing or typical ranges.",
          "Absent pricing lowers inclusion and conversion.",
          "Publish ranges; explain inclusions/exclusions.",
          "Add a 3-tier pricing block">>

DirectoryFinding ==
    <<NEEDS_WORK, <<"Partially completed profiles">>,
      "Complete Google Business Profile, Bing Places, Yellow Pages AU; keep NAP consistent.",
      "Consistent citations strengthen entity understanding for AI/maps.",
      "Verify profiles; add categories, services, photos, hours.",
      "Verify GBP and add 5 photos">>

ReviewsFinding ==
    <<NEEDS_WORK, <<"Low review volume">>,
      "Increase Google/Yelp AU (and ProductReview.com.au).",
      "Review volume and recency heavily influence AI recommendations.",
      "Automate review requests by SMS/email; add Review schema.",
      "Send review request to last 20 customers">>

PressFinding ==
    <<POOR, <<"No third-party mentions">>,
      "Pitch inclusion in local 'Best Of' lists; issue a press release.",
      "Third-party mentions validate authority; AI tools lean on them.",
      "Pitch bloggers/journalists; publish Best of [Category] in [City].",
      "Write a press release about a win">>

SchemaFinding ==
    <<NEEDS_WORK, <<"Partial schema present">>,
      "Add/validate LocalBusiness, FAQPage, Review schema.",
      "Structured data helps AI understand entities, services, proof.",
      "Use JSON-LD; test in Rich Results and Schema validators; add sameAs.",
      "Add FAQPage schema to top page">>

MobileFinding(mobile_pass) ==
    IF mobile_pass THEN
        <<GOOD, <<"Passable mobile UX">>, "Tidy tap targets; keep CLS/LCP in check.",
          "Most AI-driven searches happen on mobile; poor UX kills conversions.",
          "Compress images; ensure click-to-call is one tap.",
          "Compress hero images; verify LCP < 2.5s">>
    ELSE
        <<NEEDS_WORK, <<"Unknown">>, "Ensure responsive meta + image compression.",
          "Mobile issues lower conversion even if AI sends traffic.",
          "Add viewport meta; compress images; lazy-load below the fold.",
          "Compress hero images; verify LCP < 2.5s">>

\* BuildFindings with a Reviews entry that follows the review hits counted
\* in the fetched pages
BuildFindingsReviewsLive(sig) ==
    LET f1 == DictSet(<<>>, "Home Page Readability", ReadabilityFinding(sig.gl))
        f2 == DictSet(f1, "AI Tone of Voice", ToneFinding(sig.tone_first_person))
        f3 == DictSet(f2, "Service-in-City Pages", ServiceInCityFinding(sig.sic))
        f4 == DictSet(f3, "FAQ Depth", FaqFinding(sig.faq_qs))
        f5 == DictSet(f4, "Testimonials & Case Studies",
                      TestimonialsFinding(sig.testi_hits))
        f6 == DictSet(f5, "Comparison Table", CompareFinding(sig.has_compare))
        f7 == DictSet(f6, "Pricing Transparency", PricingFinding(sig.has_pricing))
        f8 == DictSet(f7, "Local & Directory Profiles", DirectoryFinding)
        f9 == DictSet(f8, "Reviews Quantity & Rating",
                      IF sig.testi_hits >= 5
                      THEN <<GOOD, <<"Healthy review volume">>,
                             "Keep asking for reviews.",
                             ReviewsFinding[4], ReviewsFinding[5], "">>
                      ELSE ReviewsFinding)
        f10 == DictSet(f9, "Press / Best Of Mentions", PressFinding)
        f11 == DictSet(f10, "Technical Markup (Schema)", SchemaFinding)
    IN  DictSet(f11, "Mobile UX & Speed", MobileFinding(sig.mobile_pass))

\* The findings dict, built by the assignments of run_audit in their order.
BuildFindings(sig) ==
    LET f1 == DictSet(<<>>, "Home Page Readability", ReadabilityFinding(sig.gl))
        f2 == DictSet(f1, "AI Tone of Voice", ToneFinding(sig.tone_first_person))
        f3 == DictSet(f2, "Service-in-City Pages", ServiceInCityFinding(sig.sic))
        f4 == DictSet(f3, "FAQ Depth", FaqFinding(sig.faq_qs))
        f5 == DictSet(f4, "Testimonials & Case Studies",
                      TestimonialsFinding(sig.testi_hits))
        f6 == DictSet(f5, "Comparison Table", CompareFinding(sig.has_compare))
        f7 == DictSet(f6, "Pricing Transparency", PricingFinding(sig.has_pricing))
        f8 == DictSet(f7, "Local & Directory Profiles", DirectoryFinding)
        f9 == DictSet(f8, "Reviews Quantity & Rating", ReviewsFinding)
        f10 == DictSet(f9, "Press / Best Of Mentions", PressFinding)
        f11 == DictSet(f10, "Technical Markup (Schema)", SchemaFinding)
    IN  DictSet(f11, "Mobile UX & Speed", MobileFinding(sig.mobile_pass))

----------------------------------------------------------------------------
(* the dual-mode engine (v3) *)

geo_example(lm) ==
    IF lm THEN "Mechanic in Upwey"
    ELSE "Best [Service] in [City]"

dir_examples(lm) ==
    IF lm THEN "Google Business Profile, Bing Places, Yellow Pages AU"
    ELSE "Google Business Profile, Bing Places, industry directories"

review_focus(lm) ==
    IF lm THEN "Google & Yelp AU (and ProductReview.com.au)"
    ELSE "Google, Yelp, niche review sites"

press_note(lm) ==
    IF lm THEN "local {2018}Best Of{2019} lists, community news, and suburb blogs"
    ELSE "regional {2018}Best Of{2019} lists and industry roundups"

\* run_audit of the dual-mode engine: the catalogue of default entries.
\* A character outside ASCII is written {XXXX}, its code point.
Catalogue(lm) ==
    <<
      <<"Home Page Readability",
        <<NEEDS_WORK,
          <<"Average clarity">>,
          "Tighten copy and reduce sentence length",
          "AI answers prefer concise, plain{2011}language summaries they can quote quickly.",
          "Target a ~7th{2011}grade reading level, shorten sentences, and surface 3{2013}5 bullet benefits above the fold.",
          "Rewrite hero section in 5 bullet points and 2 short sentences.">>>>,
      <<"AI Tone of Voice",
        <<NEEDS_WORK,
          <<"Mixed (first{2011}person + promo)">>,
          "Rewrite in third{2011}person expert voice",
          "Neutral, expert tone increases trust and likelihood of being cited by AI systems.",
          "Rewrite key pages as if an independent expert is recommending you; avoid hype.",
          "Rewrite About + Services first to third{2011}person expert tone.">>>>,
      <<"Service{2011}in{2011}City Pages",
        <<POOR,
          <<"Missing dedicated pages">>,
          "Create location pages (e.g., {2018}" \o geo_example(lm) \o "{2019})",
          "Dedicated service+city pages feed AI with precise local answers and intent signals.",
          "For each suburb/city: 2 short paragraphs, 1 local testimonial, contact CTA, and LocalBusiness + FAQ schema.",
          "Draft 3 priority suburb pages and add to nav/footer sitemap.">>>>,
      <<"FAQ Depth",
        <<NEEDS_WORK,
          <<"A few basic FAQs">>,
          "Add 5{2013}10 buyer FAQs with concise answers",
          "Q&A blocks map directly to how users ask AI and power rich answers.",
          "Add specific pricing, turnaround, warranty, and service{2011}area FAQs with 1{2013}3 sentence answers; add FAQPage schema.",
          "Add 5 FAQs to top 2 service pages this week.">>>>,
      <<"Testimonials & Case Studies",
        <<POOR,
          <<"Weak social proof">>,
          "Create testimonials page and 1{2013}2 case studies",
          "Social proof is a strong recommendation signal for AI and a conversion driver for humans.",
          "Collect 6{2013}10 quotes with names/suburbs; add a {2018}Results{2019} story with before/after and photo if possible.",
          "Email last 10 customers for a 2{2011}line quote and star rating.">>>>,
      <<"Comparison Table",
        <<POOR,
          <<"No competitor comparison">>,
          "Add a simple comparison table (You vs 3 competitors)",
          "Side{2011}by{2011}side comparisons are frequently quoted in AI overviews for {2018}X vs Y{2019} queries.",
          "4 columns: You vs 3 competitors; rows: features, warranty, response time, price band, reviews.",
          "Draft a 5{2011}row table and publish under /compare.">>>>,
      <<"Pricing Transparency",
        <<NEEDS_WORK,
          <<"{2018}Contact us{2019} only">>,
          "Add {2018}from{2019} pricing or ranges",
          "Price signals help AI route high{2011}intent users and reduce friction.",
          "Publish {2018}from{2019} pricing or typical ranges with inclusions/exclusions; link to a pricing explainer.",
          "Add a {2018}Pricing{2019} section with 3 tiers today.">>>>,
      <<"Local & Directory Profiles",
        <<NEEDS_WORK,
          <<"Partially completed profiles">>,
          "Complete " \o dir_examples(lm) \o " and keep NAP consistent",
          "Consistent profiles and citations strengthen local entity understanding for AI and maps.",
          "Ensure name{2011}address{2011}phone matches everywhere; add categories, services, photos, hours.",
          "Verify/complete Google Business Profile and add 5 photos.">>>>,
      <<"Reviews Quantity & Rating",
        <<NEEDS_WORK,
          <<"Low review volume">>,
          "Increase " \o review_focus(lm) \o "; ask after completed jobs",
          "Review volume and recency heavily influence AI recommendations.",
          "Automate review requests by SMS/email post{2011}job; showcase rating on site with Review schema.",
          "Send a review request to last 20 customers.">>>>,
      <<"Press / {2018}Best Of{2019} Mentions",
        <<POOR,
          <<"No third{2011}party mentions">>,
          "Pitch inclusion in " \o press_note(lm),
          "Third{2011}party mentions validate authority; AI tools lean on them to avoid bias.",
          "Pitch local bloggers/journalists; publish a {2018}Best of [Category] in [City]{2019} round{2011}up with transparent criteria.",
          "Write a press release about a customer win or new service launch.">>>>,
      <<"Technical Markup (Schema)",
        <<NEEDS_WORK,
          <<"Partial schema present">>,
          "Add/validate LocalBusiness, FAQPage, Review schema",
          "Structured data helps AI understand entities, services, and proof.",
          "Use JSON{2011}LD; test in Rich Results & Schema validators; add sameAs links to major profiles.",
          "Add FAQPage schema to top service page.">>>>,
      <<"Mobile UX & Speed",
        <<GOOD,
          <<"Passable mobile UX">>,
          "Tidy tap targets; keep CLS/LCP in check",
          "Most AI{2011}driven searches happen on mobile; poor UX kills conversions.",
          "Ensure click{2011}to{2011}call/WhatsApp are 1{2011}tap; compress images; lazy{2011}load below the fold.",
          "Compress hero images and verify LCP < 2.5s.">>>>
    >>

----------------------------------------------------------------------------
(* scoring *)

\* _SCORE_MAP / SCORE_MAP, with the .get(icon, 0) default
SCORE_MAP(icon) ==
    CASE icon = GOOD -> 2
      [] icon = NEEDS_WORK -> 1
      [] OTHER -> 0

RECURSIVE SumPoints(_)
SumPoints(entries) ==
    IF entries = <<>> THEN 0
    ELSE SCORE_MAP(Head(entries)[1]) + SumPoints(Tail(entries))

\* int((total / max_total) * 100), the round() left out
PercentTruncated(total, max_total) ==
    IF max_total = 0 THEN [val |-> 0, exc |-> "ZeroDivisionError"]
    ELSE [val |-> (100 * total) \div max_total, exc |-> ""]

\* int(round((total / max_total) * 100)); a zero divisor raises.
\* The quotient is exact here; the float the source rounds is the nearest
\* double to it, which rounds to the same integer for every map of fewer
\* than 20 categories.
Percent(total, max_total) ==
    IF max_total = 0 THEN [val |-> 0, exc |-> "ZeroDivisionError"]
    ELSE [val |-> Round(100 * total, max_total), exc |-> ""]

\* v4: _overall_score(audit_data)
_overall_score(data) ==
    IF data = <<>> THEN [val |-> 0, exc |-> ""]
    ELSE Percent(SumPoints(Values(data)), 2 * Len(data))

\* score_pct without the "else 1" for the empty dict
ScorePctNoGuard(data) ==
    Percent(SumPoints(Values(data)), 2 * Len(data))

\* aeo_logic.py: total, max_total and score_pct of generate_pdf_report
ScorePct(data) ==
    LET total == SumPoints(Values(data))
        max_total == IF data # <<>> THEN 2 * Len(data) ELSE 1
    IN  Percent(total, max_total)

----------------------------------------------------------------------------
(* ROI *)

\* IMPACT.get(area, ("Low", 0.05)); the fraction is in hundredths
\* IMPACT whose .get has no weight for an area it does not list
ImpactDefaultNothing(area) ==
    CASE area = "Service-in-City Pages"       -> <<"High", 40>>
      [] area = "Testimonials & Case Studies" -> <<"Medium", 25>>
      [] area = "FAQ Depth"                   -> <<"Medium", 20>>
      [] area = "Comparison Table"            -> <<"Medium", 20>>
      [] area = "AI Tone of Voice"            -> <<"Medium", 15>>
      [] area = "Home Page Readability"       -> <<"Medium", 15>>
      [] area = "Pricing Transparency"        -> <<"Low", 10>>
      [] area = "Local & Directory Profiles"  -> <<"Low", 10>>
      [] area = "Reviews Quantity & Rating"   -> <<"Low", 10>>
      [] area = "Press / Best Of Mentions"    -> <<"Low", 10>>
      [] area = "Technical Markup (Schema)"   -> <<"Low", 10>>
      [] area = "Mobile UX & Speed"           -> <<"Low", 10>>
      [] OTHER                                -> <<"Low", 0>>

IMPACT(area) ==
    CASE area = "Service-in-City Pages"       -> <<"High", 40>>
      [] area = "Testimonials & Case Studies" -> <<"Medium", 25>>
      [] area = "FAQ Depth"                   -> <<"Medium", 20>>
      [] area = "Comparison Table"            -> <<"Medium", 20>>
      [] area = "AI Tone of Voice"            -> <<"Medium", 15>>
      [] area = "Home Page Readability"       -> <<"Medium", 15>>
      [] area = "Pricing Transparency"        -> <<"Low", 10>>
      [] area = "Local & Directory Profiles"  -> <<"Low", 10>>
      [] area = "Reviews Quantity & Rating"   -> <<"Low", 10>>
      [] area = "Press / Best Of Mentions"    -> <<"Low", 10>>
      [] area = "Technical Markup (Schema)"   -> <<"Low", 10>>
      [] area = "Mobile UX & Speed"           -> <<"Low", 10>>
      [] OTHER                                -> <<"Low", 5>>

\* Amounts are exact rationals kept as integer numerators: base_conv_rate
\* and base_conversions in 1/100, added_conversions and projected_dollars
\* in 1/10000.  The source computes them in doubles; the formatted table
\* cells ("%.1f", int()) are not modelled.

\* base_conv_rate = max(0.0, float(baseline_conv_pct) / 100.0)
BaseConvRate(pct) == Max(0, pct)

\* base_conversions that counts at least one visitor
BaseConversionsAtLeastOne(visitors, pct) == Max(1, visitors) * BaseConvRate(pct)

\* base_conversions = monthly_visitors * base_conv_rate
BaseConversions(visitors, pct) == visitors * BaseConvRate(pct)

\* projected_dollars without the clamp of avg_sale_value
ProjectedDollarsUnclamped(added, avg) == added * avg

\* projected_dollars = added_conversions * max(0, avg_sale_value)
ProjectedDollars(added, avg) == added * Max(0, avg)

\* the row appended for one area, <<>> when none is
RoiRow(area, icon, visitors, pct, avg) ==
    LET pri == IMPACT(area)[1]
        imp == IMPACT(area)[2]
        added_conversions == BaseConversions(visitors, pct) * imp
    IN  IF icon # GOOD
        THEN <<[area |-> area, pri |-> pri, imp |-> <<imp, "%">>,
                added_conversions |-> added_conversions,
                projected_dollars |->
                    ProjectedDollars(added_conversions, avg)]>>
        ELSE <<>>

RECURSIVE RoiLoop(_, _, _, _)
RoiLoop(data, visitors, pct, avg) ==
    IF data = <<>> THEN <<>>
    ELSE RoiRow(Head(data)[1], Head(data)[2][1], visitors, pct, avg)
         \o RoiLoop(Tail(data), visitors, pct, avg)

AllGoodRow ==
    [area |-> "All Good", pri |-> "{2014}", imp |-> <<"{2014}">>,
     added_conversions |-> 0, projected_dollars |-> 0]

\* RoiRows without the row appended when the loop appended none
RoiRowsNoSentinel(data, visitors, pct, avg) ==
    RoiLoop(data, visitors, pct, avg)

\* roi_rows[1:], the table below its header row
RoiRows(data, visitors, pct, avg) ==
    LET rows == RoiLoop(data, visitors, pct, avg)
    IN  IF rows = <<>> THEN <<AllGoodRow>> ELSE rows

\* current_rev, potential_rev (uplift_mult = 4.4) and lost_m, in 1/1000
SalesFigures(visitors, pct, avg) ==
    LET current_rev == visitors * BaseConvRate(pct) * Max(0, avg) * 10
        potential_rev == (current_rev * 44) \div 10
    IN  [current_rev |-> current_rev, potential_rev |-> potential_rev,
         lost_m |-> Max(0, potential_rev - current_rev)]

----------------------------------------------------------------------------
(* the executive summary's lists *)

\* s[:n]
Take(s, n) == SubSeq(s, 1, IF Len(s) < n THEN Len(s) ELSE n)

NoBullets == [strengths |-> <<>>, weaknesses |-> <<>>, quick_wins |-> <<>>]

\* "<area>: <result>" for every GOOD entry
StrengthBullets(data) ==
    LET good == SelectSeq(data, LAMBDA e : e[2][1] = GOOD)
    IN  [i \in 1..Len(good) |-> <<good[i][1], ": ", good[i][2][2]>>]

\* "<area>: <result><dash><recommendation>" for every other entry
WeaknessBullets(data, dash) ==
    LET other == SelectSeq(data, LAMBDA e : e[2][1] # GOOD)
    IN  [i \in 1..Len(other) |->
            <<other[i][1], ": ", other[i][2][2], dash, other[i][2][3]>>]

\* qw: the quick win of every entry that is not GOOD and has one
QuickWins(data) ==
    LET other == SelectSeq(data, LAMBDA e : e[2][1] # GOOD /\ e[2][6] # "")
    IN  [i \in 1..Len(other) |-> other[i][2][6]]

\* the loop over the quick wins without its seen set
UniqueKeepAll(qw, seen) == qw

\* for q in qw: if q not in seen: qw_unique.append(q); seen.add(q)
RECURSIVE Unique(_, _)
Unique(qw, seen) ==
    IF qw = <<>> THEN <<>>
    ELSE IF Head(qw) \in seen THEN Unique(Tail(qw), seen)
    ELSE <<Head(qw)>> \o Unique(Tail(qw), seen \cup {Head(qw)})

\* v4: strengths[:6], weaknesses[:6], qwins_unique[:6]
_collect_bullets(data) ==
    [strengths |-> Take(StrengthBullets(data), 6),
     weaknesses |-> Take(WeaknessBullets(data, " {2013} "), 6),
     quick_wins |-> Take(Unique(QuickWins(data), {}), 6)]

----------------------------------------------------------------------------
(* run_audit (aeo_logic.py) *)

NoHrefs == [p \in {"about", "services", "faq", "pricing", "testi", "compare"}
               |-> None]

NoSoups == [p \in {"about", "services", "faq", "pricing", "testi", "compare"}
               |-> EmptySoup]

\* the step after key page p
AfterPage(p) ==
    CASE p = "about"    -> "services"
      [] p = "services" -> "faq"
      [] p = "faq"      -> "pricing"
      [] p = "pricing"  -> "testi"
      [] p = "testi"    -> "compare"
      [] p = "compare"  -> "signals"

\* one requests.get as _safe_get issues it, and what _safe_get returned;
\* slept: the seconds slept since the previous request (run_audit never
\* sleeps)
Request(u, r, g) ==
    [url |-> u, ua |-> UserAgent, kind |-> r.kind, status |-> r.status,
     html |-> r.html, returned |-> g.text, slept |-> 0]

\* What requests.get may do on the next call: what the tape says when the
\* tape reaches that far, anything the network can do otherwise.
Answers(u, bodies) ==
    IF Len(log) < Len(tape) THEN {tape[Len(log) + 1]}
    ELSE Responses(u, bodies)

\* the tape after requests.get did r
Taped(r) == IF Len(log) < Len(tape) THEN tape ELSE Append(tape, r)

RunIdle ==
    /\ url = <<>>
    /\ local_mode = TRUE
    /\ pc = "idle"
    /\ soup_home = EmptySoup
    /\ hrefs = NoHrefs
    /\ soups = NoSoups
    /\ log = <<>>
    /\ findings = <<>>
    /\ exc = ""
    /\ tape = <<>>
    /\ engine = "live"
    /\ first = NoRun

ReportIdle ==
    /\ gen = "pro"
    /\ audit_data = <<>>
    /\ include_sales_pages = TRUE
    /\ avg_sale_value = 500
    /\ baseline_conv_pct = 3
    /\ monthly_visitors = 300
    /\ rpc = "idle"
    /\ score_pct = 0
    /\ score = 0
    /\ sales = SalesFigures(0, 0, 0)
    /\ roi_rows = <<>>
    /\ rexc = ""
    /\ strengths = <<>>
    /\ weaknesses = <<>>
    /\ qw_unique = <<>>
    /\ shown = NoBullets

\* the legacy app before any page is looked at
NoPage == [title |-> "absent", meta |-> "absent", h1 |-> "absent",
           schema |-> "none", qa |-> FALSE]

AppIdle ==
    /\ app_url = <<"https://", "example.com">>
    /\ app_pc = "idle"
    /\ app_soup = NoPage
    /\ result = <<>>
    /\ app_score = 0
    /\ recommendations = <<>>
    /\ calls = <<>>
    /\ app_exc = ""

Init ==
    /\ url \in BaseUrls
    /\ local_mode \in BOOLEAN
    /\ pc = "start"
    /\ soup_home = EmptySoup
    /\ hrefs = NoHrefs
    /\ soups = NoSoups
    /\ log = <<>>
    /\ findings = <<>>
    /\ exc = ""
    /\ tape = <<>>
    /\ engine = "live"
    /\ first = NoRun
    /\ ReportIdle
    /\ AppIdle

\* url = _norm_url(url); home_html = _safe_get(url); soup_home = ...
FetchHome ==
    /\ pc = "start"
    /\ engine = "live"
    /\ \E r \in Answers(_norm_url(url), HomePages) :
         LET u == _norm_url(url)
             g == _safe_get(r)
         IN  /\ url' = u
             /\ log' = Append(log, Request(u, r, g))
             /\ tape' = Taped(r)
             /\ IF g.exc # ""
                THEN /\ exc' = g.exc
                     /\ pc' = "raised"
                     /\ UNCHANGED soup_home
                ELSE /\ soup_home' = g.text
                     /\ pc' = "links"
                     /\ UNCHANGED exc
    /\ UNCHANGED <<local_mode, hrefs, soups, findings, engine, first>>
    /\ UNCHANGED repVars
    /\ UNCHANGED appVars

\* about_href = _find_link_like(soup_home, ["about"]) ... compare_href = ...
FindLinks ==
    /\ pc = "links"
    /\ hrefs' = [p \in DOMAIN hrefs |->
                    _find_link_like(soup_home.anchors, Labels(p))]
    /\ pc' = "about"
    /\ UNCHANGED <<url, local_mode, soup_home, soups, log, findings, exc>>
    /\ UNCHANGED <<tape, engine, first>>
    /\ UNCHANGED repVars
    /\ UNCHANGED appVars

\* _get_soup that asks for every page twice
GetSoupTwice(p) ==
    /\ pc = p
    /\ IF hrefs[p] = None
       THEN /\ soups' = [soups EXCEPT ![p] = EmptySoup]
            /\ pc' = AfterPage(p)
            /\ UNCHANGED <<log, exc, tape>>
       ELSE IF UrljoinRaises(url, hrefs[p])
       THEN /\ exc' = "ValueError"
            /\ pc' = "raised"
            /\ UNCHANGED <<log, soups, tape>>
       ELSE \E r \in Answers(urljoin(url, hrefs[p]), SubBodies) :
              LET absu == urljoin(url, hrefs[p])
                  g == _safe_get(r)
              IN  /\ log' = Append(Append(log, Request(absu, r, g)),
                                   Request(absu, r, g))
                  /\ tape' = Taped(r)
                  /\ soups' = [soups EXCEPT ![p] = g.text]
                  /\ pc' = AfterPage(p)
                  /\ UNCHANGED exc
    /\ UNCHANGED <<url, local_mode, soup_home, hrefs, findings, engine, first>>
    /\ UNCHANGED repVars
    /\ UNCHANGED appVars

\* soup_<p> = _get_soup(<p>_href)
_get_soup(p) ==
    /\ pc = p
    /\ IF hrefs[p] = None
       THEN /\ soups' = [soups EXCEPT ![p] = EmptySoup]
            /\ pc' = AfterPage(p)
            /\ UNCHANGED <<log, exc, tape>>
       ELSE IF UrljoinRaises(url, hrefs[p])
       THEN /\ exc' = "ValueError"
            /\ pc' = "raised"
            /\ UNCHANGED <<log, soups, tape>>
       ELSE \E r \in Answers(urljoin(url, hrefs[p]), SubBodies) :
              LET absu == urljoin(url, hrefs[p])
                  g == _safe_get(r)
              IN  /\ log' = Append(log, Request(absu, r, g))
                  /\ tape' = Taped(r)
                  /\ IF g.exc # ""
                     THEN /\ exc' = g.exc
                          /\ pc' = "raised"
                          /\ UNCHANGED soups
                     ELSE /\ soups' = [soups EXCEPT ![p] = g.text]
                          /\ pc' = AfterPage(p)
                          /\ UNCHANGED exc
    /\ UNCHANGED <<url, local_mode, soup_home, hrefs, findings, engine, first>>
    /\ UNCHANGED repVars
    /\ UNCHANGED appVars

GetSoups == \E p \in DOMAIN hrefs : _get_soup(p)

\* the signals, the findings and the return
Analyse ==
    /\ pc = "signals"
    /\ findings' = BuildFindings(Signals(soup_home, soups))
    /\ pc' = "done"
    /\ UNCHANGED <<url, local_mode, soup_home, hrefs, soups, log, exc>>
    /\ UNCHANGED <<tape, engine, first>>
    /\ UNCHANGED repVars
    /\ UNCHANGED appVars

Next == FetchHome \/ FindLinks \/ GetSoups \/ Analyse

Spec == Init /\ [][Next]_vars

----------------------------------------------------------------------------
(* run_audit called twice for one site *)

\* run_audit of the dual-mode engine: it returns its catalogue
DualModeAudit ==
    /\ pc = "start"
    /\ engine = "v3"
    /\ findings' = Catalogue(local_mode)
    /\ pc' = "done"
    /\ UNCHANGED <<url, local_mode, soup_home, hrefs, soups, log, exc>>
    /\ UNCHANGED <<tape, engine, first>>
    /\ UNCHANGED repVars
    /\ UNCHANGED appVars

\* The caller keeps what the call returned (or raised) and calls run_audit
\* again for the same address, with either local_mode: the locals of the
\* new call are fresh, the site answers as the tape says.
Rerun ==
    /\ pc \in {"done", "raised"}
    /\ first = NoRun
    /\ first' = [pc |-> pc, local_mode |-> local_mode,
                 findings |-> findings, exc |-> exc]
    /\ local_mode' \in BOOLEAN
    /\ pc' = "start"
    /\ soup_home' = EmptySoup
    /\ hrefs' = NoHrefs
    /\ soups' = NoSoups
    /\ log' = <<>>
    /\ findings' = <<>>
    /\ exc' = ""
    /\ UNCHANGED <<url, tape, engine>>
    /\ UNCHANGED repVars
    /\ UNCHANGED appVars

\* anchors of the sample home pages of a site audited twice
TwiceAnchorLists ==
    {<<>>,
     <<[txt |-> "faq", href |-> "/p"]>>,
     <<[txt |-> "compare", href |-> BadHref]>>,
     <<[txt |-> "our services", href |-> "/p"],
       [txt |-> "reviews", href |-> "/p"]>>,
     <<[txt |-> "about us", href |-> "/p"],
       [txt |-> "pricing", href |-> "/p"]>>}

\* what the site does on the request for its home page
TwiceHomeAnswers ==
    {Raise("Timeout"), Response(404, TRUE, DenseBody)}
    \cup {Response(200, TRUE, [b EXCEPT !.anchors = al]) :
             b \in HomeBodies, al \in TwiceAnchorLists}

InitTwice ==
    /\ url = <<"https://", "example.com">>
    /\ local_mode \in BOOLEAN
    /\ pc = "start"
    /\ soup_home = EmptySoup
    /\ hrefs = NoHrefs
    /\ soups = NoSoups
    /\ log = <<>>
    /\ findings = <<>>
    /\ exc = ""
    /\ \/ engine = "live" /\ \E r \in TwiceHomeAnswers : tape = <<r>>
       \/ engine = "v3" /\ tape = <<>>
    /\ first = NoRun
    /\ ReportIdle
    /\ AppIdle

NextTwice ==
    FetchHome \/ FindLinks \/ GetSoups \/ Analyse \/ DualModeAudit \/ Rerun

SpecTwice == InitTwice /\ [][NextTwice]_vars

----------------------------------------------------------------------------
(* the signals and findings of run_audit over bounded page contents *)

MaxSent == 2
MaxWords == 24
MaxSyll == 36
MaxMarkers == 5
MaxCols == 5

\* the text's grade is halfway between two tenths: the double the source
\* rounds lies on either side of the tie, so these texts are left out
GradeTie(text) ==
    LET sentences == Max(1, text.sent)
        words == Max(1, text.words)
        syll == Max(1, text.syll)
        n == 39 * words * words + 1180 * syll * sentences
                - 1559 * sentences * words
        d == 10 * sentences * words
    IN  2 * (n - (n \div d) * d) = d

NoSub == [home |-> PlainBody, sub |-> NoSoups]

\* home pages of every size of text, no other page
ReadabilityCases ==
    {c \in {[NoSub EXCEPT !.home =
                [EmptySoup EXCEPT !.sent = s, !.words = w, !.syll = y,
                                  !.has_text = (s + w > 0),
                                  !.viewport = TRUE]] :
               s \in 0..MaxSent, w \in 0..MaxWords, y \in 0..MaxSyll} :
        ~GradeTie(c.home)}

\* home pages with any numbers of first-person and third-person markers
ToneCases ==
    {[NoSub EXCEPT !.home = [PlainBody EXCEPT !.first_person = f,
                                              !.third_person = t]] :
        f \in 0..MaxMarkers, t \in 0..MaxMarkers}

\* FAQ markers on the home page, and on the FAQ page when there is one
FaqCases ==
    LET homes == {[PlainBody EXCEPT !.faq_words = n, !.details = d] :
                     n \in 0..MaxMarkers, d \in {0, 3}}
        pages == {EmptySoup}
                 \cup {[PlainBody EXCEPT !.faq_words = n, !.details = d] :
                          n \in 0..MaxMarkers, d \in {0, 1, 3}}
    IN  {[home |-> h, sub |-> [NoSoups EXCEPT !["faq"] = q]] :
            h \in homes, q \in pages}

\* review words on the home page, on the testimonials page when there is
\* one, and on the FAQ page
TestiCases ==
    LET pages == {EmptySoup}
                 \cup {[PlainBody EXCEPT !.testi_words = n] :
                          n \in 0..MaxMarkers}
        others == {EmptySoup, [PlainBody EXCEPT !.testi_words = 4]}
    IN  {[home |-> [PlainBody EXCEPT !.testi_words = n],
          sub |-> [NoSoups EXCEPT !["testi"] = t, !["faq"] = o]] :
            n \in 0..MaxMarkers, t \in pages, o \in others}

\* pages with and without a table, of any width, with any of the words
ComparePages ==
    {[PlainBody EXCEPT !.has_table = (k >= 0), !.max_cols = Max(0, k),
                       !.txt_compare = w[1], !.txt_comparison = w[2],
                       !.txt_vs = w[3], !.txt_pros = w[4], !.txt_cons = w[5]] :
        k \in -1..MaxCols, w \in [1..5 -> BOOLEAN]}

\* a table of pictures: four cells a row and no text
TextlessTable ==
    [EmptySoup EXCEPT !.has_table = TRUE, !.max_cols = 4, !.viewport = TRUE]

CompareCases ==
    {[NoSub EXCEPT !.sub = [NoSoups EXCEPT !["compare"] = q]] :
        q \in ComparePages}
    \cup {[NoSub EXCEPT !.home = h] : h \in ComparePages}
    \cup {[NoSub EXCEPT !.sub = [NoSoups EXCEPT !["compare"] = TextlessTable]]}

SignalCases ==
    ReadabilityCases \cup ToneCases \cup FaqCases \cup TestiCases
    \cup CompareCases

\* the text of a home-page link to key page p
LinkText(p) ==
    CASE p = "about"    -> "about us"
      [] p = "services" -> "our services"
      [] p = "faq"      -> "faq"
      [] p = "pricing"  -> "pricing"
      [] p = "testi"    -> "reviews"
      [] p = "compare"  -> "compare"

\* the key pages a case has, in the order run_audit requests them
Linked(c) == SelectSeq(PageNames, LAMBDA p : c.sub[p] # EmptySoup)

\* the home page of a case, with a link to each key page it has
HomeOf(c) ==
    [c.home EXCEPT !.anchors =
        [i \in 1..Len(Linked(c)) |->
            [txt |-> LinkText(Linked(c)[i]), href |-> "/p"]]]

\* what requests.get did: every page of the case came with 200, text/html
AnswersOf(c) ==
    <<Response(200, TRUE, HomeOf(c))>>
    \o [i \in 1..Len(Linked(c)) |-> Response(200, TRUE, c.sub[Linked(c)[i]])]

\* run_audit has fetched the pages of a case and is about to compute the
\* signals
InitSignals ==
    \E c \in SignalCases :
        LET base == <<"https://", "example.com">>
            rs == AnswersOf(c)
        IN  /\ url = base
            /\ local_mode = TRUE
            /\ pc = "signals"
            /\ soup_home = _safe_get(rs[1]).text
            /\ hrefs = [p \in DOMAIN NoHrefs |->
                           _find_link_like(HomeOf(c).anchors, Labels(p))]
            /\ soups = c.sub
            /\ log = [i \in 1..Len(rs) |->
                         Request(IF i = 1 THEN base ELSE urljoin(base, "/p"),
                                 rs[i], _safe_get(rs[i]))]
            /\ tape = rs
            /\ findings = <<>>
            /\ exc = ""
            /\ engine = "live"
            /\ first = NoRun
            /\ ReportIdle
            /\ AppIdle

NextSignals == Analyse

SpecSignals == InitSignals /\ [][NextSignals]_vars

----------------------------------------------------------------------------
(* the requests of one run_audit, for sites picked link by link *)

\* a home page that links each key page at an address of its own
FullAnchors ==
    <<[txt |-> "about us", href |-> "/about"],
      [txt |-> "our services", href |-> "/services"],
      [txt |-> "faq", href |-> "/faq"],
      [txt |-> "pricing", href |-> "/pricing"],
      [txt |-> "reviews", href |-> "/reviews"],
      [txt |-> "compare", href |-> "/compare"]>>

\* two menu entries that lead to one address
SharedAnchors ==
    <<[txt |-> "our services", href |-> "/p"],
      [txt |-> "reviews", href |-> "/p"]>>

\* one menu entry whose text names two key pages
DoubleAnchors == <<[txt |-> "services & pricing", href |-> "/offer"]>>

\* a link urlsplit rejects, after a good one
BrokenAnchors ==
    <<[txt |-> "about us", href |-> "/about"],
      [txt |-> "compare", href |-> BadHref]>>

\* a long-winded first-person home page without viewport or links
WordyBody ==
    [EmptySoup EXCEPT !.sent = 1, !.words = 25, !.syll = 50,
                      !.first_person = 3, !.has_text = TRUE]

Ok(body) == Response(200, TRUE, body)

\* The sites: the url argument and what requests.get does on the first
\* calls, in order; later calls may go any way.
CrawlCases ==
    LET full == [PlainBody EXCEPT !.anchors = FullAnchors, !.testi_words = 3]
        com == <<"https://", "example.com">>
    IN  {[url |-> com, tape |-> <<Ok(full), Ok(DenseBody), Ok(DenseBody),
                                  Ok(DenseBody)>>],
         [url |-> com, tape |-> <<Ok([WordyBody EXCEPT !.anchors = FullAnchors]),
                                  Raise("Timeout"), Response(404, TRUE, DenseBody),
                                  Ok(BlankBody)>>],
         [url |-> com, tape |-> <<Ok(WordyBody)>>],
         [url |-> com, tape |-> <<Raise("Timeout")>>],
         [url |-> com, tape |-> <<Response(404, TRUE, full)>>],
         [url |-> com, tape |-> <<Response(200, FALSE, full)>>],
         [url |-> com, tape |-> <<Ok([PlainBody EXCEPT
                                         !.anchors = BrokenAnchors])>>],
         [url |-> <<"example.net">>,
          tape |-> <<Ok([PlainBody EXCEPT !.anchors = SharedAnchors])>>],
         [url |-> <<"http://", "example.org">>,
          tape |-> <<Ok([PromoBody EXCEPT !.anchors = DoubleAnchors])>>],
         [url |-> <<>>, tape |-> <<Raise("MissingSchema")>>]}

InitCrawl ==
    /\ \E c \in CrawlCases : url = c.url /\ tape = c.tape
    /\ local_mode \in BOOLEAN
    /\ pc = "start"
    /\ soup_home = EmptySoup
    /\ hrefs = NoHrefs
    /\ soups = NoSoups
    /\ log = <<>>
    /\ findings = <<>>
    /\ exc = ""
    /\ engine = "live"
    /\ first = NoRun
    /\ ReportIdle
    /\ AppIdle

NextCrawl == FetchHome \/ FindLinks \/ GetSoups \/ Analyse

SpecCrawl == InitCrawl /\ [][NextCrawl]_vars

----------------------------------------------------------------------------
(* generate_pdf_report *)

MaxCats == 4

ReportAreas ==
    {"Service-in-City Pages", "FAQ Depth", "Home Page Readability",
     "Site Search"}

SampleEntry(icon) ==
    <<icon, <<"result">>, "recommendation", "why", "how",
      IF icon = GOOD THEN "" ELSE "quick win">>

\* dicts of at most MaxCats sample entries, and the catalogue
CategoryMaps ==
    (UNION {{d \in [1..n -> ReportAreas \X {SampleEntry(i) : i \in Icons}] :
                \A i, j \in 1..n : i # j => d[i][1] # d[j][1]}
            : n \in 0..MaxCats})
    \cup {Catalogue(lm) : lm \in BOOLEAN}

InitReport ==
    /\ RunIdle
    /\ AppIdle
    /\ audit_data \in CategoryMaps
    /\ \/ /\ gen = "pro"
          /\ include_sales_pages \in BOOLEAN
          /\ avg_sale_value \in {-500, 0, 500}
          /\ baseline_conv_pct \in {-3, 0, 3}
          /\ monthly_visitors \in {-300, 0, 300}
       \/ /\ gen = "premium"
          /\ include_sales_pages = TRUE
          /\ avg_sale_value = 500
          /\ baseline_conv_pct = 3
          /\ monthly_visitors = 300
    /\ rpc = "start"
    /\ score_pct = 0
    /\ score = 0
    /\ sales = SalesFigures(0, 0, 0)
    /\ roi_rows = <<>>
    /\ rexc = ""
    /\ strengths = <<>>
    /\ weaknesses = <<>>
    /\ qw_unique = <<>>
    /\ shown = NoBullets

\* aeo_logic.py: the "What It Is Costing You Today" figures
SalesSection ==
    /\ gen = "pro"
    /\ rpc = "start"
    /\ sales' = IF include_sales_pages
                THEN SalesFigures(monthly_visitors, baseline_conv_pct,
                                  avg_sale_value)
                ELSE sales
    /\ rpc' = "summary"
    /\ UNCHANGED <<gen, audit_data, include_sales_pages, avg_sale_value,
                   baseline_conv_pct, monthly_visitors, score_pct, score,
                   roi_rows, rexc>>
    /\ UNCHANGED bulletVars
    /\ UNCHANGED runVars
    /\ UNCHANGED appVars

\* aeo_logic.py: the executive summary's score and its three lists
ExecutiveSummary ==
    /\ gen = "pro"
    /\ rpc = "summary"
    /\ LET r == ScorePct(audit_data)
       IN  IF r.exc # ""
           THEN /\ rexc' = r.exc
                /\ rpc' = "raised"
                /\ UNCHANGED score_pct
                /\ UNCHANGED bulletVars
           ELSE /\ score_pct' = r.val
                /\ strengths' = StrengthBullets(audit_data)
                /\ weaknesses' = WeaknessBullets(audit_data, " {2014} ")
                /\ qw_unique' = Unique(QuickWins(audit_data), {})
                /\ shown' = [strengths |-> Take(strengths', 6),
                             weaknesses |-> Take(weaknesses', 6),
                             quick_wins |-> Take(qw_unique', 6)]
                /\ rpc' = "roi"
                /\ UNCHANGED rexc
    /\ UNCHANGED <<gen, audit_data, include_sales_pages, avg_sale_value,
                   baseline_conv_pct, monthly_visitors, score, sales,
                   roi_rows>>
    /\ UNCHANGED runVars
    /\ UNCHANGED appVars

\* aeo_logic.py: the ROI table
RoiTable ==
    /\ gen = "pro"
    /\ rpc = "roi"
    /\ roi_rows' = IF include_sales_pages
                   THEN RoiRows(audit_data, monthly_visitors,
                                baseline_conv_pct, avg_sale_value)
                   ELSE roi_rows
    /\ rpc' = "done"
    /\ UNCHANGED <<gen, audit_data, include_sales_pages, avg_sale_value,
                   baseline_conv_pct, monthly_visitors, score_pct, score,
                   sales, rexc>>
    /\ UNCHANGED bulletVars
    /\ UNCHANGED runVars
    /\ UNCHANGED appVars

\* v4: score = _overall_score(audit_data);
\* strengths, weaknesses, quick_wins = _collect_bullets(audit_data)
PremiumSummary ==
    /\ gen = "premium"
    /\ rpc = "start"
    /\ LET r == _overall_score(audit_data)
       IN  IF r.exc # ""
           THEN /\ rexc' = r.exc
                /\ rpc' = "raised"
                /\ UNCHANGED score
                /\ UNCHANGED bulletVars
           ELSE /\ score' = r.val
                /\ strengths' = StrengthBullets(audit_data)
                /\ weaknesses' = WeaknessBullets(audit_data, " {2013} ")
                /\ qw_unique' = Unique(QuickWins(audit_data), {})
                /\ shown' = _collect_bullets(audit_data)
                /\ rpc' = "done"
                /\ UNCHANGED rexc
    /\ UNCHANGED <<gen, audit_data, include_sales_pages, avg_sale_value,
                   baseline_conv_pct, monthly_visitors, score_pct, sales,
                   roi_rows>>
    /\ UNCHANGED runVars
    /\ UNCHANGED appVars

NextReport == SalesSection \/ ExecutiveSummary \/ RoiTable \/ PremiumSummary

SpecReport == InitReport /\ [][NextReport]_vars

----------------------------------------------------------------------------
(* the legacy five-check app (aeoaudit_reviewmate_with_pdf.py) *)

\* What fetch_page_data looks at in the page:
\*   title   no <title> ("absent"), one without a string child
\*           ("childless": soup.title.string is None), one of white space
\*           ("blank"), one with text ("text");
\*   meta    no description meta tag, one without a content attribute
\*           ("nocontent"), a blank content, a content with text;
\*   h1      no <h1>, a blank one, one with text;
\*   schema  no ld+json script ("none"), only scripts without a string
\*           ("empty"), a script with one ("json");
\*   qa      a string of the page starts with what, how, why or when.
LegacyPages ==
    [title : {"absent", "childless", "blank", "text"},
     meta : {"absent", "nocontent", "blank", "text"},
     h1 : {"absent", "blank", "text"},
     schema : {"none", "empty", "json"},
     qa : BOOLEAN]

\* what requests.get can do for the address
LegacyResponses(u) ==
    IF ~HasScheme(u)
    THEN {[kind |-> "raise", status |-> 0, page |-> NoPage,
           error |-> "MissingSchema"]}
    ELSE {[kind |-> "raise", status |-> 0, page |-> NoPage, error |-> e] :
             e \in {"Timeout", "ConnectionError"}}
         \cup {[kind |-> "response", status |-> st, page |-> pg, error |-> ""] :
                  st \in {200, 404}, pg \in LegacyPages}

\* bool(value) of a dict item: the value of "error" is a string, the value
\* of a check is a bool
Truthy(item) == IF item[1] = "error" THEN item[2] # "" ELSE item[2]

\* fetch_page_data: the dict it returns, or the exception that leaves it
fetch_page_data(r) ==
    IF r.kind = "raise"
    THEN [val |-> <<<<"error", r.error>>>>, exc |-> ""]
    ELSE IF r.status >= 400
    THEN [val |-> <<<<"error", "HTTPError">>>>, exc |-> ""]
    ELSE IF r.page.title = "childless"
    THEN [val |-> <<>>, exc |-> "AttributeError"]
    ELSE [val |-> <<<<"Title Tag", r.page.title = "text">>,
                    <<"Meta Description", r.page.meta = "text">>,
                    <<"H1", r.page.h1 = "text">>,
                    <<"Schema Markup Found", r.page.schema = "json">>,
                    <<"FAQ/Q&A Content Present", r.page.qa>>>>,
          exc |-> ""]

\* calculate_score: int((passed / total) * 100); for the totals that occur
\* (up to five) the double is the exact quotient
calculate_score(results) ==
    LET total == Len(results)
        passed == Cardinality({i \in 1..total : Truthy(results[i])})
    IN  IF total = 0 THEN [val |-> 0, exc |-> "ZeroDivisionError"]
        ELSE [val |-> (passed * 100) \div total, exc |-> ""]

\* the checks in the order generate_recommendations tests them, each with
\* its message
Messages ==
    <<<<"Title Tag",
        "{2022} Add a clear, benefit-driven <title> tag for AI to understand your page.">>,
      <<"Meta Description",
        "{2022} Include a concise <meta description> in answer format.">>,
      <<"H1",
        "{2022} Add an <H1> heading that clearly describes your main service.">>,
      <<"Schema Markup Found",
        "{2022} Add structured data (FAQ, LocalBusiness) to help AI index your content.">>,
      <<"FAQ/Q&A Content Present",
        "{2022} Include Q&A style content to target AI answers and voice search.">>>>

\* generate_recommendations that has no message for the Q&A check
RecommendationsWithoutQa(results) ==
    LET failed == SelectSeq(SubSeq(Messages, 1, 4),
                      LAMBDA m : ~Truthy(results[DictIndex(results, m[1])]))
    IN  [val |-> [i \in 1..Len(failed) |-> failed[i][2]], exc |-> ""]

\* generate_recommendations: results[<check>] raises KeyError when the
\* check is missing
generate_recommendations(results) ==
    IF \E i \in 1..Len(Messages) : DictIndex(results, Messages[i][1]) = 0
    THEN [val |-> <<>>, exc |-> "KeyError"]
    ELSE LET failed == SelectSeq(Messages,
                           LAMBDA m : ~Truthy(results[DictIndex(results, m[1])]))
         IN  [val |-> [i \in 1..Len(failed) |-> failed[i][2]], exc |-> ""]

\* the form holds an address and the button has been pressed
InitLegacy ==
    /\ RunIdle
    /\ ReportIdle
    /\ app_url \in BaseUrls
    /\ app_pc = "clicked"
    /\ app_soup = NoPage
    /\ result = <<>>
    /\ app_score = 0
    /\ recommendations = <<>>
    /\ calls = <<>>
    /\ app_exc = ""

\* the handler without its test for "error" in result
FetchPageUnchecked ==
    /\ app_pc = "clicked"
    /\ \E r \in LegacyResponses(app_url) :
         LET f == fetch_page_data(r)
         IN  /\ app_soup' = IF r.kind = "response" /\ r.status < 400
                          THEN r.page ELSE NoPage
             /\ IF f.exc # ""
                THEN /\ app_exc' = f.exc
                     /\ app_pc' = "raised"
                     /\ calls' = Append(calls, "fetch_page_data")
                     /\ UNCHANGED result
                ELSE /\ result' = f.val
                     /\ calls' = Append(calls, "fetch_page_data")
                     /\ app_pc' = "score"
                     /\ UNCHANGED app_exc
    /\ UNCHANGED <<app_url, app_score, recommendations>>
    /\ UNCHANGED runVars
    /\ UNCHANGED repVars

\* result = fetch_page_data(url); if "error" in result: st.error(...)
FetchPage ==
    /\ app_pc = "clicked"
    /\ \E r \in LegacyResponses(app_url) :
         LET f == fetch_page_data(r)
         IN  /\ app_soup' = IF r.kind = "response" /\ r.status < 400
                          THEN r.page ELSE NoPage
             /\ IF f.exc # ""
                THEN /\ app_exc' = f.exc
                     /\ app_pc' = "raised"
                     /\ calls' = Append(calls, "fetch_page_data")
                     /\ UNCHANGED result
                ELSE IF DictIndex(f.val, "error") # 0
                THEN /\ result' = f.val
                     /\ calls' = calls \o <<"fetch_page_data", "st.error">>
                     /\ app_pc' = "done"
                     /\ UNCHANGED app_exc
                ELSE /\ result' = f.val
                     /\ calls' = Append(calls, "fetch_page_data")
                     /\ app_pc' = "score"
                     /\ UNCHANGED app_exc
    /\ UNCHANGED <<app_url, app_score, recommendations>>
    /\ UNCHANGED runVars
    /\ UNCHANGED repVars

\* score = calculate_score(result)
Score ==
    /\ app_pc = "score"
    /\ LET c == calculate_score(result)
       IN  IF c.exc # ""
           THEN /\ app_exc' = c.exc
                /\ app_pc' = "raised"
                /\ UNCHANGED app_score
           ELSE /\ app_score' = c.val
                /\ app_pc' = "recommend"
                /\ UNCHANGED app_exc
    /\ calls' = Append(calls, "calculate_score")
    /\ UNCHANGED <<app_url, app_soup, result, recommendations>>
    /\ UNCHANGED runVars
    /\ UNCHANGED repVars

\* recommendations = generate_recommendations(result)
Recommend ==
    /\ app_pc = "recommend"
    /\ LET g == generate_recommendations(result)
       IN  IF g.exc # ""
           THEN /\ app_exc' = g.exc
                /\ app_pc' = "raised"
                /\ UNCHANGED recommendations
           ELSE /\ recommendations' = g.val
                /\ app_pc' = "pdf"
                /\ UNCHANGED app_exc
    /\ calls' = Append(calls, "generate_recommendations")
    /\ UNCHANGED <<app_url, app_soup, result, app_score>>
    /\ UNCHANGED runVars
    /\ UNCHANGED repVars

\* pdf_file = generate_pdf_report(url, score, result, recommendations)
MakePdf ==
    /\ app_pc = "pdf"
    /\ calls' = Append(calls, "generate_pdf_report")
    /\ app_pc' = "done"
    /\ UNCHANGED <<app_url, app_soup, result, app_score, recommendations,
                   app_exc>>
    /\ UNCHANGED runVars
    /\ UNCHANGED repVars

NextLegacy == FetchPage \/ Score \/ Recommend \/ MakePdf

SpecLegacy == InitLegacy /\ [][NextLegacy]_vars

----------------------------------------------------------------------------
(* properties *)

Verdicts(d) == [i \in 1..Len(d) |-> d[i][2][1]]

\* the request did not yield a page: no 200 text/html response
Failed(req) == ~(req.kind = "response" /\ req.status = 200 /\ req.html)

\* the category names, in the order of the catalogue
AreaOrder ==
    <<"Home Page Readability", "AI Tone of Voice", "Service-in-City Pages",
      "FAQ Depth", "Testimonials & Case Studies", "Comparison Table",
      "Pricing Transparency", "Local & Directory Profiles",
      "Reviews Quantity & Rating", "Press / Best Of Mentions",
      "Technical Markup (Schema)", "Mobile UX & Speed">>

\* C1: whatever the fetches do and the pages contain, run_audit does not
\* raise, and the map it returns holds every catalogue category exactly
\* once, in the catalogue's order.
C1_CompleteMapNeverRaises ==
    /\ pc # "raised"
    /\ exc = ""
    /\ pc = "done" => Keys(findings) = AreaOrder

\* C2: when every fetch of a run fails and local_mode is true, the map
\* returned has the verdicts of the baseline catalogue, entry for entry, and
\* its readiness score is the catalogue's.
C2_AllFailedIsBaseline ==
    (pc = "done" /\ local_mode /\ \A i \in 1..Len(log) : Failed(log[i]))
    => /\ Verdicts(findings) = Verdicts(Catalogue(TRUE))
       /\ ScorePct(findings).val = ScorePct(Catalogue(TRUE)).val

Count(d, icon) == Cardinality({i \in 1..Len(d) : d[i][2][1] = icon})

Points(d) == 2 * Count(d, GOOD) + Count(d, NEEDS_WORK)

\* s is sum(points) / (2 * category_count) * 100 rounded to the nearest
\* integer, a tie going to the even one
IsRoundedPercent(s, d) ==
    LET n == Len(d)
        diff == 2 * n * s - 100 * Points(d)
    IN  /\ -n <= diff /\ diff <= n
        /\ (diff = n \/ diff = -n) => s % 2 = 0
        /\ Count(d, GOOD) = n => s = 100
        /\ Count(d, POOR) = n => s = 0

\* C3: for every non-empty category map the readiness score is
\* round(sum(points) / (2 * category_count) * 100) with GOOD = 2,
\* NEEDS_WORK = 1 and POOR = 0; all GOOD scores 100, all POOR scores 0.
C3_ScoreIsRoundedPercent ==
    audit_data # <<>> =>
        /\ (gen = "pro" /\ rpc \in {"roi", "done"})
               => IsRoundedPercent(score_pct, audit_data)
        /\ (gen = "premium" /\ rpc = "done")
               => IsRoundedPercent(score, audit_data)

\* four categories, three POOR and one NEEDS_WORK: 12.5 rounds to 12
C3_Witness ==
    /\ gen = "pro" /\ rpc = "done"
    /\ Len(audit_data) = 4
    /\ Count(audit_data, POOR) = 3 /\ Count(audit_data, NEEDS_WORK) = 1
    /\ score_pct = 12

\* C4: scoring the empty category map yields 0 and divides by nothing, in
\* both scorers.
C4_EmptyMapScoresZero ==
    audit_data = <<>> =>
        /\ rexc = "" /\ rpc # "raised"
        /\ (gen = "pro" /\ rpc \in {"roi", "done"}) => score_pct = 0
        /\ (gen = "premium" /\ rpc = "done") => score = 0

C4_Witness ==
    /\ audit_data = <<>>
    /\ gen = "pro" /\ rpc = "done" /\ score_pct = 0 /\ rexc = ""

\* the entries of d that get an impact row: those whose verdict is not GOOD
NonGood(d) == SelectSeq(d, LAMBDA e : e[2][1] # GOOD)

RoiDone == gen = "pro" /\ rpc = "done" /\ include_sales_pages

\* every non-GOOD category has its impact row, in order, with amounts
\* computed from visitors, pct and avg (amounts as in RoiRow: added and
\* projected in 1/10000)
RowsFollow(visitors, pct, avg) ==
    LET ng == NonGood(audit_data)
    IN  ng # <<>> =>
            /\ Len(roi_rows) = Len(ng)
            /\ \A i \in 1..Len(ng) :
                 LET base_conversions == visitors * pct
                     impact_fraction == IMPACT(ng[i][1])[2]
                 IN  /\ roi_rows[i].area = ng[i][1]
                     /\ roi_rows[i].added_conversions
                            = base_conversions * impact_fraction
                     /\ roi_rows[i].projected_dollars
                            = roi_rows[i].added_conversions * avg

Clamp(x) == IF x < 0 THEN 0 ELSE x

\* C5 as stated: the impact row of each non-GOOD category is
\* base_conversions = monthly_visitors * (baseline_conv_pct / 100),
\* added_conversions = base_conversions * impact_fraction,
\* projected_dollars = added_conversions * avg_sale_value.
C5_RowsFromRawInputs ==
    RoiDone => RowsFollow(monthly_visitors, baseline_conv_pct, avg_sale_value)

\* C5, amended: the same three products with baseline_conv_pct and
\* avg_sale_value clamped at zero first; inputs 500 / 3 / 300 and a POOR
\* category of weight 0.40 give base 9, added 3.6 and projected 1800.
C5_RowsFromClampedInputs ==
    RoiDone =>
        /\ RowsFollow(monthly_visitors, Clamp(baseline_conv_pct),
                      Clamp(avg_sale_value))
        /\ \A i \in 1..Len(roi_rows) :
             (/\ avg_sale_value = 500 /\ baseline_conv_pct = 3
              /\ monthly_visitors = 300
              /\ roi_rows[i].imp = <<40, "%">>)
             => /\ roi_rows[i].added_conversions = 36000
                /\ roi_rows[i].projected_dollars = 18000000

C5_Witness ==
    /\ RoiDone
    /\ avg_sale_value = 500 /\ baseline_conv_pct = 3 /\ monthly_visitors = 300
    /\ Len(audit_data) = 1
    /\ audit_data[1][1] = "Service-in-City Pages"
    /\ audit_data[1][2][1] = POOR
    /\ Len(roi_rows) = 1
    /\ roi_rows[1].added_conversions = 36000
    /\ roi_rows[1].projected_dollars = 18000000

\* C6: each of the three ROI inputs is clamped to zero when negative, so no
\* impact row carries a negative added-conversions or projected-dollar
\* figure.
C6_NoNegativeRow ==
    RoiDone => \A i \in 1..Len(roi_rows) :
                  /\ roi_rows[i].added_conversions >= 0
                  /\ roi_rows[i].projected_dollars >= 0

\* the key pages whose _get_soup call has returned
PagesDone ==
    CASE pc = "about"    -> {}
      [] pc = "services" -> {"about"}
      [] pc = "faq"      -> {"about", "services"}
      [] pc = "pricing"  -> {"about", "services", "faq"}
      [] pc = "testi"    -> {"about", "services", "faq", "pricing"}
      [] pc = "compare"  -> {"about", "services", "faq", "pricing", "testi"}
      [] pc \in {"signals", "done"} -> DOMAIN hrefs
      [] OTHER -> {}

C8_FetchRecordsTextOnlyOnSuccess ==
    /\ exc \notin {"Timeout", "ConnectionError", "MissingSchema"}
    /\ \A i \in 1..Len(log) :
         /\ Failed(log[i]) => log[i].returned = EmptySoup
         /\ log[i].returned # EmptySoup => log[i].status = 200
    /\ pc \notin {"start", "raised"} => soup_home = log[1].returned
    /\ \A p \in PagesDone : soups[p] # EmptySoup =>
         \E i \in 2..Len(log) : ~Failed(log[i]) /\ log[i].returned = soups[p]

\* a 404 answered with an html body left no text, a 200 did
C8_Witness ==
    /\ pc = "done"
    /\ Len(log) = 3
    /\ log[2].status = 404 /\ log[2].returned = EmptySoup
    /\ log[3].status = 200 /\ log[3].returned = DenseBody
    /\ soups["faq"] = DenseBody

\* C9: a request answered with 403 is retried exactly once, with another
\* identity header; a second rejection is a failure, and no url is attempted
\* more than twice.
C9_RetryOnceOnForbidden ==
    /\ \A i \in 1..Len(log) :
         (log[i].status = 403 /\ log[i].ua = UserAgent)
         => /\ i < Len(log)
            /\ log[i + 1].url = log[i].url
            /\ log[i + 1].ua # UserAgent
    /\ \A i \in 1..Len(log) :
         Cardinality({j \in 1..Len(log) : log[j].url = log[i].url}) <= 2

\* C10: pages are fetched one at a time and a fixed delay elapses between
\* every two consecutive requests, whatever the earlier one did.
C10_DelayBetweenRequests ==
    \A i \in 2..Len(log) : log[i].slept > 0

\* the entry of an area in a findings dict, None when it has none
Entry(d, area) == DictGet(d, area, None)

\* C11: the entries of the categories without a live extractor (Local &
\* Directory Profiles, Reviews Quantity & Rating, Press / Best Of Mentions)
\* are the same fixed entries in every map run_audit returns, whatever pages
\* were fetched and whatever they contain.
C11_FixedEntriesWhateverFetched ==
    pc = "done" =>
        /\ Entry(findings, "Local & Directory Profiles") =
             <<NEEDS_WORK, <<"Partially completed profiles">>,
               "Complete Google Business Profile, Bing Places, Yellow Pages AU; keep NAP consistent.",
               "Consistent citations strengthen entity understanding for AI/maps.",
               "Verify profiles; add categories, services, photos, hours.",
               "Verify GBP and add 5 photos">>
        /\ Entry(findings, "Reviews Quantity & Rating") =
             <<NEEDS_WORK, <<"Low review volume">>,
               "Increase Google/Yelp AU (and ProductReview.com.au).",
               "Review volume and recency heavily influence AI recommendations.",
               "Automate review requests by SMS/email; add Review schema.",
               "Send review request to last 20 customers">>
        /\ Entry(findings, "Press / Best Of Mentions") =
             <<POOR, <<"No third-party mentions">>,
               "Pitch inclusion in local 'Best Of' lists; issue a press release.",
               "Third-party mentions validate authority; AI tools lean on them.",
               "Pitch bloggers/journalists; publish Best of [Category] in [City].",
               "Write a press release about a win">>

\* a home page and a reviews page full of review words were fetched, and
\* the Reviews entry is the fixed one
C11_Witness ==
    /\ pc = "done"
    /\ ~Failed(log[1])
    /\ soups["testi"] = DenseBody
    /\ soups["testi"].testi_words + soup_home.testi_words >= 5
    /\ Entry(findings, "Reviews Quantity & Rating")[2] = <<"Low review volume">>

\* the second call has returned after the first one did
BothReturned == first.pc = "done" /\ pc = "done"

\* C12: for the same address and the same fetch outcomes, run_audit with
\* local_mode true and with local_mode false end the same way and return the
\* same verdict for every category, hence the same score; only prose
\* differs.
C12_LocalModeKeepsVerdicts ==
    /\ (first # NoRun /\ pc = "raised") =>
            first.pc = "raised" /\ exc = first.exc
    /\ (first # NoRun /\ pc = "done") => first.pc = "done"
    /\ BothReturned =>
        /\ Keys(findings) = Keys(first.findings)
        /\ Verdicts(findings) = Verdicts(first.findings)
        /\ ScorePct(findings) = ScorePct(first.findings)

\* the dual-mode engine ran in both modes: the prose differs, the verdicts
\* do not
C12_Witness ==
    /\ BothReturned
    /\ engine = "v3"
    /\ first.local_mode # local_mode
    /\ findings # first.findings
    /\ Verdicts(findings) = Verdicts(first.findings)

Verdict(area) == Entry(findings, area)[1]

\* the grade of the home page's text, in tenths
HomeGrade == _grade_level(soup_home)

\* C14 as stated: the Home Page Readability verdict is GOOD when the grade
\* is at most 8, NEEDS_WORK when it is above 8 and at most 10, POOR when it
\* is above 10.
C14_BandsAtEightAndTen ==
    pc = "done" =>
        Verdict("Home Page Readability") =
            IF HomeGrade <= 80 THEN GOOD
            ELSE IF HomeGrade <= 100 THEN NEEDS_WORK
            ELSE POOR

\* C14, amended: GOOD when the grade is at most 8, NEEDS_WORK when it is
\* above 8 and at most 11, POOR when it is above 11.
C14_BandsAtEightAndEleven ==
    pc = "done" =>
        /\ Verdict("Home Page Readability") =
               IF HomeGrade <= 80 THEN GOOD
               ELSE IF HomeGrade <= 110 THEN NEEDS_WORK
               ELSE POOR
        /\ Entry(findings, "Home Page Readability")[2][2] = HomeGrade

\* a home page of grade 11.0 exactly is still NEEDS_WORK
C14_Witness ==
    /\ pc = "done"
    /\ HomeGrade = 110
    /\ Verdict("Home Page Readability") = NEEDS_WORK

\* C15: the grade of a text without words or without sentences, the empty
\* text among them, is 0.0.
C15_DegenerateGradeIsZero ==
    (pc = "done" /\ (soup_home.words = 0 \/ soup_home.sent = 0))
    => Entry(findings, "Home Page Readability")[2][2] = 0

\* C16: a home page with more third-person than first-person markers gets
\* the AI Tone of Voice verdict GOOD, also when it has some first-person
\* markers.
C16_ThirdPersonMajorityIsGood ==
    (pc = "done" /\ soup_home.third_person > soup_home.first_person)
    => Verdict("AI Tone of Voice") = GOOD

\* the FAQ markers of a page: disclosure elements and the words q:,
\* question, faq
FaqMarkers(page) == page.details + page.faq_words

\* C17 as stated: when one page was fetched, the FAQ Depth verdict is GOOD
\* exactly when that page has 2 or more FAQ markers.
C17_TwoMarkersMakeFaq ==
    (pc = "done" /\ Len(log) = 1) =>
        (Verdict("FAQ Depth") = GOOD <=> FaqMarkers(soup_home) >= 2)

\* the count run_audit takes: the markers of the linked FAQ page, and the
\* FAQ words of the home page when those are none
FaqCounted ==
    IF FaqMarkers(soups["faq"]) > 0 THEN FaqMarkers(soups["faq"])
    ELSE soup_home.faq_words

\* C17, amended: the FAQ Depth verdict is GOOD when the count is at least
\* 5, NEEDS_WORK when it is 1 to 4 and POOR when it is 0; a single fetched
\* page with 2 to 4 FAQ words gets NEEDS_WORK.
C17_FiveMarkersMakeFaq ==
    pc = "done" =>
        /\ Verdict("FAQ Depth") =
               IF FaqCounted >= 5 THEN GOOD
               ELSE IF FaqCounted >= 1 THEN NEEDS_WORK
               ELSE POOR
        /\ (Len(log) = 1 /\ soup_home.faq_words \in 2..4)
               => Verdict("FAQ Depth") = NEEDS_WORK

\* one page with two FAQ words was fetched: NEEDS_WORK
C17_Witness ==
    /\ pc = "done"
    /\ Len(log) = 1
    /\ soup_home.faq_words = 2
    /\ Verdict("FAQ Depth") = NEEDS_WORK

\* the review words of all fetched pages
RECURSIVE SumTesti(_)
SumTesti(pages) ==
    IF pages = <<>> THEN 0
    ELSE soups[Head(pages)].testi_words + SumTesti(Tail(pages))

\* C18 as stated: with the review words summed over all fetched pages, the
\* Testimonials & Case Studies verdict is GOOD at 8 or more, NEEDS_WORK at
\* 3 to 7 and POOR below 3.
C18_BandsAtEightAndThree ==
    pc = "done" =>
        LET n == soup_home.testi_words + SumTesti(PageNames)
        IN  Verdict("Testimonials & Case Studies") =
                IF n >= 8 THEN GOOD
                ELSE IF n >= 3 THEN NEEDS_WORK
                ELSE POOR

\* C18, amended: with the review words counted in the testimonials page
\* and the home page, the verdict is GOOD at 5 or more, NEEDS_WORK at 1 to
\* 4 and POOR at 0.
C18_BandsAtFiveAndOne ==
    pc = "done" =>
        LET n == soups["testi"].testi_words + soup_home.testi_words
        IN  Verdict("Testimonials & Case Studies") =
                IF n >= 5 THEN GOOD
                ELSE IF n >= 1 THEN NEEDS_WORK
                ELSE POOR

\* five review words over the two pages: GOOD; the four of the FAQ page do
\* not count
C18_Witness ==
    /\ pc = "done"
    /\ soups["testi"].testi_words = 3
    /\ soup_home.testi_words = 2
    /\ soups["faq"].testi_words = 4
    /\ Verdict("Testimonials & Case Studies") = GOOD

\* the page run_audit hands to the comparison-table detector
ComparePage == IF soups["compare"].has_text THEN soups["compare"] ELSE soup_home

C20_AllGoodSentinel ==
    RoiDone =>
        /\ roi_rows # <<>>
        /\ NonGood(audit_data) = <<>> =>
              roi_rows = <<[area |-> "All Good", pri |-> "{2014}",
                            imp |-> <<"{2014}">>, added_conversions |-> 0,
                            projected_dollars |-> 0]>>
        /\ NonGood(audit_data) # <<>> =>
              \A i \in 1..Len(roi_rows) : roi_rows[i].area # "All Good"

\* two categories, both GOOD, and the one row
C20_Witness ==
    /\ RoiDone
    /\ Len(audit_data) = 2
    /\ NonGood(audit_data) = <<>>
    /\ Len(roi_rows) = 1
    /\ roi_rows[1].area = "All Good"

\* C21: with zero monthly visitors every impact row has added_conversions
\* = 0 and projected_dollars = 0, whatever the category map, the weights
\* and the other two inputs.
C21_ZeroVisitorsZeroRows ==
    (RoiDone /\ monthly_visitors = 0) =>
        \A i \in 1..Len(roi_rows) :
            /\ roi_rows[i].added_conversions = 0
            /\ roi_rows[i].projected_dollars = 0

\* no visitors, a rate and a sale value above zero, and a High row of zeros
C21_Witness ==
    /\ RoiDone
    /\ monthly_visitors = 0
    /\ baseline_conv_pct = 3 /\ avg_sale_value = 500
    /\ Len(roi_rows) >= 1
    /\ roi_rows[1].pri = "High"
    /\ roi_rows[1].added_conversions = 0
    /\ roi_rows[1].projected_dollars = 0

\* the weight table as the report states it: area, priority, impact in
\* hundredths
ListedWeights ==
    {<<"Service-in-City Pages", "High", 40>>,
     <<"Testimonials & Case Studies", "Medium", 25>>,
     <<"FAQ Depth", "Medium", 20>>,
     <<"Comparison Table", "Medium", 20>>,
     <<"AI Tone of Voice", "Medium", 15>>,
     <<"Home Page Readability", "Medium", 15>>,
     <<"Pricing Transparency", "Low", 10>>,
     <<"Local & Directory Profiles", "Low", 10>>,
     <<"Reviews Quantity & Rating", "Low", 10>>,
     <<"Press / Best Of Mentions", "Low", 10>>,
     <<"Technical Markup (Schema)", "Low", 10>>,
     <<"Mobile UX & Speed", "Low", 10>>}

\* C22: the row of a non-GOOD category carries the priority and the impact
\* fraction the table lists for its name, and Low and 0.05 when the table
\* does not list the name.
C22_ListedWeightOrDefault ==
    (RoiDone /\ NonGood(audit_data) # <<>>) =>
        \A i \in 1..Len(roi_rows) :
            LET row == roi_rows[i]
                listed == {t \in ListedWeights : t[1] = row.area}
            IN  /\ \A t \in listed :
                      row.pri = t[2] /\ row.imp = <<t[3], "%">>
                /\ listed = {} =>
                      row.pri = "Low" /\ row.imp = <<5, "%">>

\* a listed and an unlisted category, both POOR, with their weights
C22_Witness ==
    /\ RoiDone
    /\ Len(roi_rows) = 2
    /\ roi_rows[1].area = "Site Search"
    /\ roi_rows[1].pri = "Low" /\ roi_rows[1].imp = <<5, "%">>
    /\ roi_rows[2].area = "Service-in-City Pages"
    /\ roi_rows[2].pri = "High" /\ roi_rows[2].imp = <<40, "%">>

\* C23: the sequence of URLs requested in one run holds no URL twice,
\* whatever the base URL and whatever links the home page contains.
C23_NoUrlProbedTwice ==
    \A i, j \in 1..Len(log) : i # j => log[i].url # log[j].url

\* C24: the number of pages requested in one run never exceeds 8, for any
\* base URL and any page contents.
C24_AtMostEightPages == Len(log) <= 8

\* the home page and each of the six key pages were requested
C24_Witness ==
    /\ pc = "done"
    /\ Len(log) = 7
    /\ \A p \in DOMAIN hrefs : hrefs[p] # None

\* C25 as stated: run_audit works on its url argument with https://
\* prepended when it starts with neither http:// nor https://, and on the
\* argument itself otherwise.
C25_SchemelessGetsHttps ==
    [][pc = "start" =>
          url' = IF HasScheme(url) THEN url ELSE <<"https://">> \o url]_vars

\* C25, amended: a non-empty url argument that starts with neither http://
\* nor https:// has https:// prepended, an empty one stays empty and one
\* that starts with http:// or https:// is used unchanged; the result is
\* empty or starts with a scheme, so normalising it again changes nothing.
C25_NonEmptySchemelessGetsHttps ==
    [][pc = "start" =>
          /\ url' = IF url = <<>> \/ HasScheme(url) THEN url
                    ELSE <<"https://">> \o url
          /\ url' = <<>> \/ url'[1] \in {"http://", "https://"}]_vars

\* example.net was given without a scheme and requested over https
C25_Witness ==
    /\ pc = "done"
    /\ url = <<"https://", "example.net">>
    /\ log[1].url = <<"https://", "example.net">>

\* C26: the readiness score of every map the live run_audit returns lies
\* between 21 and 75: Pricing Transparency is never GOOD, Press / Best Of
\* Mentions is always POOR, and Local & Directory Profiles, Reviews
\* Quantity & Rating and Technical Markup (Schema) are always NEEDS_WORK.
C26_ScoreBetween21And75 ==
    pc = "done" =>
        /\ ScorePct(findings).exc = ""
        /\ ScorePct(findings).val >= 21
        /\ ScorePct(findings).val <= 75
        /\ Verdict("Pricing Transparency") \in {NEEDS_WORK, POOR}
        /\ Verdict("Press / Best Of Mentions") = POOR
        /\ Verdict("Local & Directory Profiles") = NEEDS_WORK
        /\ Verdict("Reviews Quantity & Rating") = NEEDS_WORK
        /\ Verdict("Technical Markup (Schema)") = NEEDS_WORK

\* every extractor was satisfied, pricing signals included, and the score
\* is 75
C26_Witness ==
    /\ pc = "done"
    /\ ScorePct(findings).val = 75
    /\ Verdict("Pricing Transparency") = NEEDS_WORK
    /\ Count(findings, GOOD) = 7

\* the first anchor of the home page whose text holds a label of key page
\* p, None when there is none
LinkOf(anchors, p) ==
    LET hits == {i \in 1..Len(anchors) :
                    SubstringsOf(anchors[i].txt) \cap Labels(p) # {}}
    IN  IF hits = {} THEN None
        ELSE anchors[CHOOSE i \in hits : \A j \in hits : i <= j].href

\* C27: the home page is the first request of a run; the later requests
\* go, in the order about, services, FAQ, pricing, testimonials, compare,
\* to key pages whose link was found in the home page that was fetched;
\* when the home fetch fails the run makes exactly one request.
C27_HomeFirstThenLinkedPages ==
    /\ pc = "start" => log = <<>>
    /\ log # <<>> =>
         LET anchors == log[1].returned.anchors
             linked == SelectSeq(PageNames,
                                 LAMBDA p : LinkOf(anchors, p) # None)
         IN  /\ log[1].url = url
             /\ Len(log) - 1 <= Len(linked)
             /\ \A i \in 2..Len(log) :
                  log[i].url = <<url[1], url[2], LinkOf(anchors, linked[i - 1])>>
             /\ Failed(log[1]) => Len(log) = 1
    /\ pc = "done" => log # <<>>

\* the home page linked the about, pricing and compare pages among others,
\* and they were requested in that order after it
C27_Witness ==
    /\ pc = "done"
    /\ Len(log) = 7
    /\ log[1].url = <<"https://", "example.com">>
    /\ log[2].url = <<"https://", "example.com", "/about">>
    /\ log[5].url = <<"https://", "example.com", "/pricing">>
    /\ log[7].url = <<"https://", "example.com", "/compare">>

\* the executive summary's lists are built
BulletsDone ==
    \/ gen = "pro" /\ rpc \in {"roi", "done"}
    \/ gen = "premium" /\ rpc = "done"

\* the first entry of the map that is not GOOD and has quick win q
FirstWith(q) ==
    CHOOSE i \in 1..Len(audit_data) :
        /\ audit_data[i][2][1] # GOOD /\ audit_data[i][2][6] = q
        /\ \A j \in 1..(i - 1) :
             ~(audit_data[j][2][1] # GOOD /\ audit_data[j][2][6] = q)

\* C28: before the cut to six items every category of the map is in
\* exactly one of the strengths list (its verdict is GOOD) and the
\* weaknesses list (it is not), each in map order; the ROI table has one
\* row for each weaknesses category and none for a strengths category, in
\* map order; the quick wins are those of the weaknesses categories, each
\* once, in the order of their first occurrence.
C28_StrengthsWeaknessesQuickWins ==
    BulletsDone =>
        /\ Len(strengths) + Len(weaknesses) = Len(audit_data)
        /\ \A i \in 1..Len(audit_data) :
             LET n == Cardinality({j \in 1..i : audit_data[j][2][1] = GOOD})
             IN  IF audit_data[i][2][1] = GOOD
                 THEN /\ strengths[n][1] = audit_data[i][1]
                      /\ \A j \in 1..Len(weaknesses) :
                           weaknesses[j][1] # audit_data[i][1]
                 ELSE /\ weaknesses[i - n][1] = audit_data[i][1]
                      /\ \A j \in 1..Len(strengths) :
                           strengths[j][1] # audit_data[i][1]
        /\ (gen = "pro" /\ rpc = "done" /\ include_sales_pages) =>
             LET rows == SelectSeq(roi_rows,
                             LAMBDA r : \E i \in 1..Len(audit_data) :
                                           audit_data[i][1] = r.area)
             IN  /\ Len(rows) = Len(weaknesses)
                 /\ \A i \in 1..Len(rows) : rows[i].area = weaknesses[i][1]
                 /\ Len(roi_rows) = IF weaknesses = <<>> THEN 1 ELSE Len(rows)
        /\ \A i, j \in 1..Len(qw_unique) :
             i < j => /\ qw_unique[i] # qw_unique[j]
                      /\ FirstWith(qw_unique[i]) < FirstWith(qw_unique[j])
        /\ \A i \in 1..Len(qw_unique) :
             /\ qw_unique[i] # ""
             /\ \E k \in 1..Len(audit_data) :
                  audit_data[k][2][1] # GOOD /\ audit_data[k][2][6] = qw_unique[i]
        /\ \A k \in 1..Len(audit_data) :
             (audit_data[k][2][1] # GOOD /\ audit_data[k][2][6] # "") =>
                 \E i \in 1..Len(qw_unique) : qw_unique[i] = audit_data[k][2][6]

\* a map of one strength and three weaknesses that share their quick win:
\* three ROI rows, one quick win
C28_Witness ==
    /\ gen = "pro" /\ rpc = "done" /\ include_sales_pages
    /\ Len(audit_data) = 4
    /\ audit_data[2][2][1] = GOOD
    /\ Len(strengths) = 1 /\ Len(weaknesses) = 3
    /\ Len(roi_rows) = 3
    /\ roi_rows[2].area = audit_data[3][1]
    /\ qw_unique = <<"quick win">>

\* the five checks, in the order of the result dict
Checks ==
    <<"Title Tag", "Meta Description", "H1", "Schema Markup Found",
      "FAQ/Q&A Content Present">>

\* the handler has the score and the recommendations
RecommendationsDone ==
    /\ Len(calls) >= 3
    /\ calls[3] = "generate_recommendations"
    /\ app_exc = ""

\* C29: in the five-check audit generate_recommendations returns one
\* recommendation for each failed check, in the order of the checks, and
\* calculate_score returns floor(100 * passed / total), between 0 and 100;
\* the score is 100 exactly when there is no recommendation.
C29_OneRecommendationPerFailedCheck ==
    RecommendationsDone =>
        LET failed == SelectSeq(result, LAMBDA item : item[2] = FALSE)
            passed == Len(result) - Len(failed)
        IN  /\ Keys(result) = Checks
            /\ Len(recommendations) = Len(failed)
            /\ \A i \in 1..Len(failed) :
                 recommendations[i] = DictGet(Messages, failed[i][1], None)
            /\ Len(result) * app_score <= 100 * passed
            /\ 100 * passed < Len(result) * (app_score + 1)
            /\ app_score \in 0..100
            /\ app_score = 100 <=> recommendations = <<>>

\* a page without description and without questions: 60, and the two
\* recommendations in the order of the checks
C29_Witness ==
    /\ app_pc = "done"
    /\ app_soup.meta = "blank" /\ ~app_soup.qa
    /\ app_score = 60
    /\ recommendations =
         <<"{2022} Include a concise <meta description> in answer format.",
           "{2022} Include Q&A style content to target AI answers and voice search.">>

\* C30: when fetch_page_data returns an error the handler shows the error
\* and calls neither calculate_score nor generate_recommendations nor the
\* PDF generator; otherwise it calls them in that order, and the result it
\* passes to calculate_score holds the five checks, so that no division by
\* zero occurs.
C30_ErrorEndsTheHandler ==
    /\ (result # <<>> /\ result[1][1] = "error") =>
          /\ calls = <<"fetch_page_data", "st.error">>
          /\ app_pc = "done"
    /\ \A i \in 1..Len(calls) :
          /\ calls[i] = "fetch_page_data" => i = 1
          /\ calls[i] = "st.error" => i = 2
          /\ calls[i] = "calculate_score" =>
                 i = 2 /\ Keys(result) = Checks
          /\ calls[i] = "generate_recommendations" =>
                 i = 3 /\ calls[2] = "calculate_score"
          /\ calls[i] = "generate_pdf_report" =>
                 i = 4 /\ calls[3] = "generate_recommendations"
    /\ (app_pc = "done" /\ result[1][1] # "error") => Len(calls) = 4
    /\ app_exc # "ZeroDivisionError"

\* the site answered 404: the error was shown and nothing else was called
C30_Witness ==
    /\ app_pc = "done"
    /\ app_url = <<"https://", "example.com">>
    /\ result = <<<<"error", "HTTPError">>>>
    /\ calls = <<"fetch_page_data", "st.error">>
    /\ app_score = 0 /\ recommendations = <<>>

====
